---- MODULE Spec2Model ----
(***************************************************************************)
(* Entity lifecycle rules of the education-management backend:             *)
(*   - Session capacity (backend/models/Session.js)                        *)
(*   - Payment status transitions and overdue computation                  *)
(*     (backend/models/Payment.js)                                         *)
(*   - Payment creation: development override and invoice numbering        *)
(*     (backend/models/Payment.js, beforeCreate)                           *)
(*   - Attendance marking, duration and uniqueness                         *)
(*     (backend/models/Attendance.js)                                      *)
(*   - Error translation (backend/middleware/errorHandler.js)              *)
(*   - Notifications sent by the auth routes and the bulk senders          *)
(*     (backend/routes/auth.js, backend/services)                          *)
(*   - Route mounts and authenticateToken (backend/server.js,              *)
(*     backend/middleware/auth.js)                                         *)
(*   - Password-reset tokens and registration (backend/routes/auth.js)     *)
(*   - The client: axios interceptors, AuthProvider, ThemeProvider         *)
(*     (frontend/src/services/api.js, frontend/src/contexts)               *)
(* Times are milliseconds since the epoch, amounts are in cents.           *)
(***************************************************************************)
EXTENDS Integers, FiniteSets, Sequences, TLC

(***************************************************************************)
(* Bounds of the model.                                                    *)
(***************************************************************************)
MaxCap == 3        \* largest maxStudents a modelled session is created with
NumReq == 3        \* number of join requests
MaxDays == 2       \* the clock runs over days 0..MaxDays
MaxAmount == 2     \* largest payment amount (cents)
MonthLen == 3      \* days in a modelled calendar month
MaxPayments == 3   \* number of Payment.create calls in a run
MaxHours == 2      \* the attendance clock runs over hours 0..MaxHours
MaxRecipients == 3 \* longest recipients list of a bulk send
MaxResetRequests == 3 \* most forgot-password requests for one user

(***************************************************************************)
(* Program constants.                                                      *)
(***************************************************************************)
MIN_MAX_STUDENTS == 1          \* Session.maxStudents validate.min
MAX_MAX_STUDENTS == 50         \* Session.maxStudents validate.max
MIN_CURRENT_STUDENTS == 0      \* Session.currentStudents validate.min
MS_PER_DAY == 1000 * 60 * 60 * 24
MS_PER_MINUTE == 1000 * 60
MS_PER_HOUR == 60 * 60 * 1000

\* A nullable column: <<>> is NULL, <<v>> holds v.
None == <<>>
Some(v) == <<v>>
Val(o) == o[1]

VARIABLES
    \* ---- the stored session row
    sStatus,            \* sessions.status
    maxStudents,        \* sessions.max_students
    currentStudents,    \* sessions.current_students
    cur0,               \* currentStudents at creation (history)
    enrolled,           \* requests whose join was accepted (session_students rows)
    \* ---- join requests in flight
    pc,                 \* request -> "idle" | "read" | "joined" | "rejected"
    seen,               \* request -> the Session instance it loaded
    jerr,               \* request -> error it was answered with
    \* ---- one payment instance
    pStatus, amount, dueDate, paidAt, refundedAt, refundAmount, refundReason,
    transactionId, gatewayResponse, environment, createdAt,
    \* ---- the clock, and the last value a read-only method returned
    now, ret,
    \* ---- the payments table under Payment.create
    envFlag,            \* process.env.ENVIRONMENT
    store,              \* the persisted payment rows, in insertion order
    cpc,                \* creation -> "idle" | "counted" | "done" | "failed"
    draft,              \* creation -> the instance its hook prepared
    issued,             \* invoice numbers the hook generated, in order (history)
    clock,              \* calendar time [mo, day, tod]
    \* ---- the error-handling middleware
    lastErr,            \* the error last passed to errorHandler
    resp,               \* the response errorHandler sent for it
    \* ---- the attendance table under Attendance.create
    attRows,            \* the persisted attendance rows, in insertion order
    areq,               \* creation request -> [pc, sessionId, studentId, resp]
    \* ---- one attendance instance
    att,                \* its columns
    called,             \* mark operations called on it so far (history)
    visited,            \* statuses a mark operation has put it in (history)
    \* ---- one request to an auth route that notifies the user
    route,              \* "none" | "register" | "login" | "forgot" | "reset"
    apc,                \* "idle" | "saved" | "aborted" | "responded"
    user,               \* the stored user row the request is about
    saved,              \* the row as the handler stored it (history)
    pending,            \* notifications the handler has still to send
    outcomes,           \* outcome of each send so far (history)
    aresp,              \* HTTP status answered, 0 before the answer
    abody,              \* the body answered [success, message]
    \* ---- one sendBulkEmails / sendBulkWhatsAppMessages call
    channel,            \* "email" | "whatsapp"
    recipients,         \* the recipients argument
    oracle,             \* what the send for each recipient will do
    bidx,               \* index of the next recipient
    bpc,                \* "loop" | "returned" | "thrown"
    attempts,           \* recipients a send was attempted for, in order (history)
    results,            \* the results array
    \* ---- one request through the server's route mounts
    greq,               \* the request [mount, token, user, lookup]
    gres,               \* what the server did with it [status, message, next, reqUser, sent]
    \* ---- the browser client
    ls,                 \* localStorage [token, refreshToken]
    authState,          \* the AuthProvider's reducer state [user, token, loading, error]
    header,             \* api.defaults.headers.common['Authorization']
    location,           \* window.location.href
    account,            \* the users row the client's tokens name
    kflow,              \* "none" | "init" | "ready" | "logout" | "login" | "call"
    kreq,               \* the request in flight with its _retry flag and history
    kdone,              \* the flow that ended last and how (history)
    \* ---- one user's password-reset tokens
    racct,              \* the stored row [password, resetToken, resetTokenExpires]
    rissued,            \* tokens forgot-password issued, in order (history)
    rused,              \* tokens a reset succeeded with (history)
    rlast,              \* the last reset attempt and what it met (history)
    rnow,               \* the clock, in ms
    \* ---- the users table under registration
    users,              \* the stored users [id, email], in insertion order
    regreq,             \* registration request -> [pc, email, held, status, created]
    \* ---- the ThemeProvider
    lsTheme,            \* localStorage 'theme'
    darkMode,           \* the provider's state
    sysDark,            \* whether the system prefers the dark colour scheme
    manual,             \* toggleTheme or setTheme was called since first load (history)
    mounted,            \* the provider's effects have run
    tlast               \* the last system change and what it did (history)

sessionVars == <<sStatus, maxStudents, currentStudents, cur0, enrolled, pc, seen, jerr>>
paymentVars == <<pStatus, amount, dueDate, paidAt, refundedAt, refundAmount,
                 refundReason, transactionId, gatewayResponse, environment, createdAt>>
storeVars == <<envFlag, store, cpc, draft, issued, clock>>
errVars == <<lastErr, resp>>
attStoreVars == <<attRows, areq>>
attVars == <<att, called, visited>>
authVars == <<route, apc, user, saved, pending, outcomes, aresp, abody>>
bulkVars == <<channel, recipients, oracle, bidx, bpc, attempts, results>>
gateVars == <<greq, gres>>
clientVars == <<ls, authState, header, location, account, kflow, kreq, kdone>>
resetVars == <<racct, rissued, rused, rlast, rnow>>
regVars == <<users, regreq>>
themeVars == <<lsTheme, darkMode, sysDark, manual, mounted, tlast>>
webVars == <<gateVars, clientVars, resetVars, regVars, themeVars>>
extVars == <<storeVars, errVars, attStoreVars, attVars, authVars, bulkVars, webVars>>
vars == <<sessionVars, paymentVars, now, ret, extVars>>

(***************************************************************************)
(* Session                                                                 *)
(***************************************************************************)
SessionStatuses == {"scheduled", "ongoing", "completed", "cancelled", "rescheduled"}

Req == 1..NumReq

\* A variant whose validators also compare the two fields.
ValidSessionStrict(max, cur) ==
    /\ max >= MIN_MAX_STUDENTS /\ max <= MAX_MAX_STUDENTS
    /\ cur >= MIN_CURRENT_STUDENTS
    /\ cur <= max

\* The validators Sequelize runs on create and on save: each field alone.
ValidSession(max, cur) ==
    /\ max >= MIN_MAX_STUDENTS /\ max <= MAX_MAX_STUDENTS
    /\ cur >= MIN_CURRENT_STUDENTS

Row == [status |-> sStatus, maxStudents |-> maxStudents,
        currentStudents |-> currentStudents]

\* A faulty variant: isFull with > for >=.
isFullOffByOne(s) == s.currentStudents > s.maxStudents

isFull(s) == s.currentStudents >= s.maxStudents

\* A faulty variant: canJoin without the status test.
canJoinAnyStatus(s) == ~isFull(s)

canJoin(s) == s.status = "scheduled" /\ ~isFull(s)

NoRow == [status |-> "scheduled", maxStudents |-> 1, currentStudents |-> 0]

InitSession ==
    /\ sStatus \in SessionStatuses
    /\ maxStudents \in 1..MaxCap
    /\ currentStudents \in 0..(MaxCap + 1)
    /\ ValidSession(maxStudents, currentStudents)
    /\ cur0 = currentStudents
    /\ enrolled = {}
    /\ pc = [r \in Req |-> "idle"]
    /\ seen = [r \in Req |-> NoRow]
    /\ jerr = [r \in Req |-> "none"]

\* A join request loads the session row.
JoinRead(r) ==
    /\ pc[r] = "idle"
    /\ pc' = [pc EXCEPT ![r] = "read"]
    /\ seen' = [seen EXCEPT ![r] = Row]
    /\ UNCHANGED <<sStatus, maxStudents, currentStudents, cur0, enrolled, jerr>>

\* canJoin() is false on the loaded instance: the request is refused.
JoinReject(r) ==
    /\ pc[r] = "read"
    /\ ~canJoin(seen[r])
    /\ pc' = [pc EXCEPT ![r] = "rejected"]
    /\ jerr' = [jerr EXCEPT ![r] = IF seen[r].status # "scheduled"
                                   THEN "InvalidStateError"
                                   ELSE "CapacityError"]
    /\ UNCHANGED <<sStatus, maxStudents, currentStudents, cur0, enrolled, seen>>

\* The write of an accepted join; the validators run on it.
JoinWrite(r, new) ==
    IF ValidSession(maxStudents, new)
    THEN /\ currentStudents' = new
         /\ enrolled' = enrolled \cup {r}
         /\ pc' = [pc EXCEPT ![r] = "joined"]
         /\ UNCHANGED jerr
    ELSE /\ pc' = [pc EXCEPT ![r] = "rejected"]
         /\ jerr' = [jerr EXCEPT ![r] = "ValidationError"]
         /\ UNCHANGED <<currentStudents, enrolled>>

\* canJoin() is true: the instance's counter plus one is saved.
JoinSave(r) ==
    /\ pc[r] = "read"
    /\ canJoin(seen[r])
    /\ JoinWrite(r, seen[r].currentStudents + 1)
    /\ UNCHANGED <<sStatus, maxStudents, cur0, seen>>

\* canJoin() is true: the stored counter is incremented in place.
JoinIncrement(r) ==
    /\ pc[r] = "read"
    /\ canJoin(seen[r])
    /\ JoinWrite(r, currentStudents + 1)
    /\ UNCHANGED <<sStatus, maxStudents, cur0, seen>>

\* One request at a time: a request starts only when none is in flight.
SerialJoinRead(r) ==
    /\ \A q \in Req : pc[q] # "read"
    /\ JoinRead(r)


(***************************************************************************)
(* Payment                                                                 *)
(***************************************************************************)
PaymentStatuses == {"pending", "processing", "completed", "failed", "refunded",
                    "cancelled"}

EnvFlags == {"dev", "prod", "unset"}       \* process.env.ENVIRONMENT
TransactionIds == {"tx1", "tx2"}
GatewayResponses == {"gw1"}
Reasons == {"duplicate", "cancelled session"}

Offsets == {0, 1, MS_PER_DAY - 1}
TimePoints == {d * MS_PER_DAY + o : d \in 0..MaxDays, o \in Offsets}

\* Math.ceil(a / b), Math.floor(a / b) and Math.round(a / b) for b > 0.
Ceil(a, b) == -((-a) \div b)
Floor(a, b) == a \div b
Round(a, b) == (2 * a + b) \div (2 * b)

Pay == [status |-> pStatus, dueDate |-> dueDate]

isCompleted(p) == p.status = "completed"

\* A faulty variant: isOverdue with >= for >.
isOverdueInclusive(p, t) ==
    IF p.dueDate = None \/ isCompleted(p) THEN FALSE ELSE t >= Val(p.dueDate)

\* isOverdue() when new Date() reads t.
isOverdue(p, t) ==
    IF p.dueDate = None \/ isCompleted(p) THEN FALSE ELSE t > Val(p.dueDate)

\* A faulty variant: getDaysOverdue with Math.floor.
getDaysOverdueFloor(p, t1, t2) ==
    IF ~isOverdue(p, t1) THEN 0 ELSE Floor(t2 - Val(p.dueDate), MS_PER_DAY)

\* A faulty variant: getDaysOverdue with Math.round.
getDaysOverdueRound(p, t1, t2) ==
    IF ~isOverdue(p, t1) THEN 0 ELSE Round(t2 - Val(p.dueDate), MS_PER_DAY)

\* getDaysOverdue(): isOverdue() reads the clock at t1, then now = new Date()
\* reads it again at t2 >= t1.
getDaysOverdue(p, t1, t2) ==
    IF ~isOverdue(p, t1) THEN 0 ELSE Ceil(t2 - Val(p.dueDate), MS_PER_DAY)

NoRet == [op |-> "none", val |-> 0, t1 |-> 0, t2 |-> 0]

PaymentMethods == {"credit_card", "debit_card", "bank_transfer", "paypal", "stripe",
                   "cash", "waiver", "dev_mode"}

\* A faulty variant: the development override that keeps the supplied amount.
devOverrideKeepsAmount(flag, p, t) ==
    IF flag = "dev"
    THEN [p EXCEPT !.status = "completed", !.paidAt = Some(t),
                   !.paymentMethod = "dev_mode", !.environment = "dev"]
    ELSE p

\* beforeCreate, first part: with ENVIRONMENT === 'dev' the instance p is
\* forced to a completed zero-amount dev_mode payment paid at t.
devOverride(flag, p, t) ==
    IF flag = "dev"
    THEN [p EXCEPT !.status = "completed", !.paidAt = Some(t),
                   !.paymentMethod = "dev_mode", !.amount = 0, !.environment = "dev"]
    ELSE p

\* Payment.create at time t: the beforeCreate hook's development override,
\* then the row as supplied.  The caller supplies status st, amount amt and
\* dueDate due; the refund and gateway columns start NULL.
CreatePayment(t, flag, st, amt, due) ==
    LET p == devOverride(flag,
                 [status |-> st, amount |-> amt, paymentMethod |-> "dev_mode",
                  environment |-> IF flag = "unset" THEN "dev" ELSE flag,
                  paidAt |-> None], t)
    IN  /\ createdAt = t
        /\ dueDate = due
        /\ refundedAt = None
        /\ refundAmount = None
        /\ refundReason = None
        /\ transactionId = None
        /\ gatewayResponse = None
        /\ pStatus = p.status
        /\ paidAt = p.paidAt
        /\ amount = p.amount
        /\ environment = p.environment

\* A faulty variant: markAsCompleted that keeps a paidAt already set.
markAsCompletedKeepsPaidAt(tx, gw) ==
    /\ pStatus' = "completed"
    /\ paidAt' = IF paidAt = None THEN Some(now) ELSE paidAt
    /\ transactionId' = IF tx # None THEN tx ELSE transactionId
    /\ gatewayResponse' = IF gw # None THEN gw ELSE gatewayResponse
    /\ UNCHANGED <<amount, dueDate, refundedAt, refundAmount, refundReason,
                   environment, createdAt, now, ret>>
    /\ UNCHANGED <<sessionVars, extVars>>

markAsCompleted(tx, gw) ==
    /\ pStatus' = "completed"
    /\ paidAt' = Some(now)
    /\ transactionId' = IF tx # None THEN tx ELSE transactionId
    /\ gatewayResponse' = IF gw # None THEN gw ELSE gatewayResponse
    /\ UNCHANGED <<amount, dueDate, refundedAt, refundAmount, refundReason,
                   environment, createdAt, now, ret>>
    /\ UNCHANGED <<sessionVars, extVars>>

markAsFailed(gw) ==
    /\ pStatus' = "failed"
    /\ gatewayResponse' = IF gw # None THEN gw ELSE gatewayResponse
    /\ UNCHANGED <<amount, dueDate, paidAt, refundedAt, refundAmount, refundReason,
                   transactionId, environment, createdAt, now, ret>>
    /\ UNCHANGED <<sessionVars, extVars>>

refund(a, reason) ==
    /\ pStatus' = "refunded"
    /\ refundAmount' = Some(a)
    /\ refundReason' = Some(reason)
    /\ refundedAt' = Some(now)
    /\ UNCHANGED <<amount, dueDate, paidAt, transactionId, gatewayResponse,
                   environment, createdAt, now, ret>>
    /\ UNCHANGED <<sessionVars, extVars>>

\* The clock.
TickDay ==
    /\ now + MS_PER_DAY <= MaxDays * MS_PER_DAY
    /\ now' = now + MS_PER_DAY
    /\ UNCHANGED <<sessionVars, paymentVars, extVars, ret>>

Tick ==
    /\ \E t \in TimePoints : t > now /\ now' = t
    /\ UNCHANGED <<sessionVars, paymentVars, extVars, ret>>

CallIsOverdue ==
    /\ ret' = [op |-> "isOverdue", val |-> IF isOverdue(Pay, now) THEN 1 ELSE 0,
               t1 |-> now, t2 |-> now]
    /\ UNCHANGED <<sessionVars, paymentVars, extVars, now>>

CallGetDaysOverdue ==
    /\ \E t2 \in {t \in TimePoints : t >= now /\ t <= now + 1} :
          /\ ret' = [op |-> "getDaysOverdue", val |-> getDaysOverdue(Pay, now, t2),
                     t1 |-> now, t2 |-> t2]
          /\ now' = t2
    /\ UNCHANGED <<sessionVars, paymentVars, extVars>>

\* Payment.findOverdue() over the stored rows when new Date() reads t: the
\* rows with status 'pending' and dueDate < t (a NULL dueDate matches no
\* comparison).
findOverdue(rows, t) ==
    {p \in rows : p.status = "pending" /\ p.dueDate # None /\ Val(p.dueDate) < t}

\* The payments table holds the one payment; val is the number of rows
\* returned.
CallFindOverdue ==
    /\ ret' = [op |-> "findOverdue", val |-> Cardinality(findOverdue({Pay}, now)),
               t1 |-> now, t2 |-> now]
    /\ UNCHANGED <<sessionVars, paymentVars, extVars, now>>

(***************************************************************************)
(* The payments table: Payment.create with its beforeCreate hook           *)
(***************************************************************************)
Creations == {"a", "b"}

\* Two calendar months: the month of the first creation and the next one.
Months == {0, 1}
Days == 1..MonthLen
\* tod 0 is 00:00:00.000 of the day, tod 1 any later instant of that day.
ClockPoints == [mo : Months, day : Days, tod : {0, 1}]

Before(c, d) ==
    \/ c.mo < d.mo
    \/ c.mo = d.mo /\ c.day < d.day
    \/ c.mo = d.mo /\ c.day = d.day /\ c.tod < d.tod

NotAfter(c, d) == c = d \/ Before(c, d)

\* new Date(y, m, 1) and new Date(y, m + 1, 0): midnight that starts the
\* first day, and midnight that starts the last day, of the month of date.
MonthStart(date) == [mo |-> date.mo, day |-> 1, tod |-> 0]
MonthEnd(date) == [mo |-> date.mo, day |-> MonthLen, tod |-> 0]

\* Payment.count({ where: { createdAt: { between: [MonthStart, MonthEnd] } } })
CountInMonth(rows, date) ==
    Cardinality({i \in DOMAIN rows :
                    /\ NotAfter(MonthStart(date), rows[i].createdAt)
                    /\ NotAfter(rows[i].createdAt, MonthEnd(date))})

\* `INV-${year}${month}-${String(count + 1).padStart(4, '0')}`
InvoiceNumber(date, count) == [mo |-> date.mo, n |-> count + 1]

\* A number a caller supplies itself; the hook never generates n = 0.
SuppliedNumber == [mo |-> 0, n |-> 0]

\* beforeCreate, second part: an instance without invoiceNumber gets one.
withInvoiceNumber(p, date, count) ==
    IF p.invoiceNumber = None
    THEN [p EXCEPT !.invoiceNumber = Some(InvoiceNumber(date, count))]
    ELSE p

\* A faulty variant: invoiceNumber without the unique constraint.
UniqueInvoiceDropped(rows, p) == TRUE

\* unique: true on invoiceNumber (UNIQUE on payments.invoice_number).
UniqueInvoice(rows, p) ==
    \A i \in DOMAIN rows : rows[i].invoiceNumber # p.invoiceNumber

NoDraft == [id |-> <<>>, status |-> "none", amount |-> 0, paymentMethod |-> "none",
            environment |-> "none", paidAt |-> None, createdAt |-> MonthStart([mo |-> 0]),
            invoiceNumber |-> None, seenRows |-> 0,
            supplied |-> [status |-> "none", amount |-> 0, paymentMethod |-> "none"]]

\* Payment.build(values): the instance before the hooks run; supplied keeps
\* the caller's values and seenRows the number of rows stored when the hook
\* counted (history); id is the row's primary key.
Build(id, st, amt, pm, env, inv, t) ==
    [id |-> id, status |-> st, amount |-> amt, paymentMethod |-> pm, environment |-> env,
     paidAt |-> None, createdAt |-> t, invoiceNumber |-> inv, seenRows |-> 0,
     supplied |-> [status |-> st, amount |-> amt, paymentMethod |-> pm]]

\* Payment.create, up to the end of beforeCreate: the development override,
\* then the count query and the invoice number.
HookCount(c, st, amt, pm, env, inv) ==
    /\ cpc[c] # "counted"
    /\ Len(issued) < MaxPayments
    /\ LET p == devOverride(envFlag,
                            Build(<<c, Len(issued)>>, st, amt, pm, env, inv, clock),
                            clock)
           q == withInvoiceNumber(p, clock, CountInMonth(store, clock))
       IN  /\ draft' = [draft EXCEPT ![c] = [q EXCEPT !.seenRows = Len(store)]]
           /\ issued' = IF inv = None THEN Append(issued, Val(q.invoiceNumber))
                        ELSE issued
    /\ cpc' = [cpc EXCEPT ![c] = "counted"]
    /\ UNCHANGED <<envFlag, store, clock>>

\* Payment.create, the INSERT: refused by the unique constraint when the
\* invoiceNumber is already stored (SequelizeUniqueConstraintError).
Insert(c) ==
    /\ cpc[c] = "counted"
    /\ IF UniqueInvoice(store, draft[c])
       THEN /\ store' = Append(store, draft[c])
            /\ cpc' = [cpc EXCEPT ![c] = "done"]
       ELSE /\ store' = store
            /\ cpc' = [cpc EXCEPT ![c] = "failed"]
    /\ UNCHANGED <<envFlag, draft, issued, clock>>

\* One creation at a time: a creation starts only when none is in flight.
SerialHookCount(c, st, amt, pm, env, inv) ==
    /\ \A d \in Creations : cpc[d] # "counted"
    /\ HookCount(c, st, amt, pm, env, inv)

\* Calendar time passes.
ClockTick ==
    /\ \E t \in ClockPoints :
          /\ Before(clock, t)
          /\ \A u \in ClockPoints : ~(Before(clock, u) /\ Before(u, t))
          /\ clock' = t
    /\ UNCHANGED <<envFlag, store, cpc, draft, issued>>

IdleStore ==
    /\ envFlag = "prod"
    /\ store = <<>>
    /\ cpc = [c \in Creations |-> "idle"]
    /\ draft = [c \in Creations |-> NoDraft]
    /\ issued = <<>>
    /\ clock = MonthStart([mo |-> 0])

(***************************************************************************)
(* errorHandler (backend/middleware/errorHandler.js)                       *)
(***************************************************************************)
ErrNames == {"SequelizeValidationError", "SequelizeUniqueConstraintError",
             "SequelizeForeignKeyConstraintError", "JsonWebTokenError",
             "TokenExpiredError", "CastError", "Error"}
ErrCodes == {"none", "LIMIT_FILE_SIZE", "LIMIT_UNEXPECTED_FILE"}

\* The errors passed to the middleware: err.name, err.code, err.status, an
\* own statusCode property and err.message.
Errors == [name : ErrNames, code : ErrCodes, status : {None, Some(429)},
           statusCode : {None, Some(0), Some(404)}, message : {"", "boom"}]

\* error = { statusCode, message } assigned under `if (cond)`.
Override(cond, e, statusCode, message) ==
    IF cond THEN [statusCode |-> Some(statusCode), message |-> message] ELSE e

\* A faulty variant: the unique-constraint rule answering 400.
errorHandlerUniqueAs400(err) ==
    LET e0 == [statusCode |-> err.statusCode, message |-> err.message]
        e1 == Override(err.name = "SequelizeValidationError", e0, 400, "Validation Error")
        e2 == Override(err.name = "SequelizeUniqueConstraintError", e1, 400, "Duplicate Error")
        e3 == Override(err.name = "SequelizeForeignKeyConstraintError", e2, 400,
                       "Referenced record does not exist")
        e4 == Override(err.name = "JsonWebTokenError", e3, 401, "Invalid token")
        e5 == Override(err.name = "TokenExpiredError", e4, 401, "Token expired")
        e6 == Override(err.code = "LIMIT_FILE_SIZE", e5, 400, "File size too large")
        e7 == Override(err.code = "LIMIT_UNEXPECTED_FILE", e6, 400, "Unexpected file field")
        e8 == Override(err.status = Some(429), e7, 429,
                       "Too many requests, please try again later")
        e9 == Override(err.name = "CastError", e8, 400, "Invalid ID format")
    IN  [statusCode |-> IF e9.statusCode = None \/ e9.statusCode = Some(0)
                        THEN 500 ELSE Val(e9.statusCode),
         success |-> FALSE,
         message |-> IF e9.message = "" THEN "Internal Server Error" ELSE e9.message]

\* errorHandler(err, req, res, next): error starts as a copy of err, each
\* matching `if` in turn replaces it, then the response is sent.
errorHandler(err) ==
    LET e0 == [statusCode |-> err.statusCode, message |-> err.message]
        e1 == Override(err.name = "SequelizeValidationError", e0, 400, "Validation Error")
        e2 == Override(err.name = "SequelizeUniqueConstraintError", e1, 409, "Duplicate Error")
        e3 == Override(err.name = "SequelizeForeignKeyConstraintError", e2, 400,
                       "Referenced record does not exist")
        e4 == Override(err.name = "JsonWebTokenError", e3, 401, "Invalid token")
        e5 == Override(err.name = "TokenExpiredError", e4, 401, "Token expired")
        e6 == Override(err.code = "LIMIT_FILE_SIZE", e5, 400, "File size too large")
        e7 == Override(err.code = "LIMIT_UNEXPECTED_FILE", e6, 400, "Unexpected file field")
        e8 == Override(err.status = Some(429), e7, 429,
                       "Too many requests, please try again later")
        e9 == Override(err.name = "CastError", e8, 400, "Invalid ID format")
    IN  [statusCode |-> IF e9.statusCode = None \/ e9.statusCode = Some(0)
                        THEN 500 ELSE Val(e9.statusCode),
         success |-> FALSE,
         message |-> IF e9.message = "" THEN "Internal Server Error" ELSE e9.message]

NoErr == [name |-> "none", code |-> "none", status |-> None, statusCode |-> None,
          message |-> ""]
NoResp == [statusCode |-> 0, success |-> TRUE, message |-> ""]

\* An error reaches the middleware and is answered.
HandleError(err) ==
    /\ lastErr' = err
    /\ resp' = errorHandler(err)

IdleErr == lastErr = NoErr /\ resp = NoResp

(***************************************************************************)
(* Attendance (backend/models/Attendance.js)                               *)
(***************************************************************************)
AttendanceStatuses == {"present", "absent", "late", "excused", "pending"}
MarkOps == {"markPresent", "markAbsent", "markLate"}
Markers == {"tutor1", "tutor2"}
AbsenceReasons == {None, Some("sick")}

\* Instants of the attendance clock: each full hour and half a minute later.
AttTimePoints == {h * MS_PER_HOUR + o : h \in 0..MaxHours, o \in {0, MS_PER_MINUTE \div 2}}

\* Attendance.create({ sessionId, studentId }): every other column default.
NewAttendance ==
    [status |-> "pending", created |-> "pending", checkInTime |-> None,
     checkOutTime |-> None, duration |-> None, markedBy |-> None,
     markedAt |-> None, reason |-> None]

\* Attendance.create as the seed script calls it at time t with status st.
SeedAttendance(st, t) ==
    [status |-> st, created |-> st,
     checkInTime |-> IF st \in {"present", "late"} THEN Some(t) ELSE None,
     checkOutTime |-> IF st = "present" THEN Some(t + MS_PER_HOUR) ELSE None,
     duration |-> IF st = "present" THEN Some(60) ELSE None,
     markedBy |-> Some("tutor1"), markedAt |-> Some(t), reason |-> None]

\* History kept with every mark operation.
Marked(op) ==
    /\ called' = called \cup {op}
    /\ visited' = visited \cup {att'.status}

markPresent(markedBy) ==
    /\ att' = [att EXCEPT !.status = "present", !.checkInTime = Some(now),
                          !.markedBy = Some(markedBy), !.markedAt = Some(now)]
    /\ Marked("markPresent")
    /\ UNCHANGED <<now, ret>>

markAbsent(markedBy, reason) ==
    /\ att' = [att EXCEPT !.status = "absent", !.reason = reason,
                          !.markedBy = Some(markedBy), !.markedAt = Some(now)]
    /\ Marked("markAbsent")
    /\ UNCHANGED <<now, ret>>

markLate(markedBy) ==
    /\ att' = [att EXCEPT !.status = "late", !.checkInTime = Some(now),
                          !.markedBy = Some(markedBy), !.markedAt = Some(now)]
    /\ Marked("markLate")
    /\ UNCHANGED <<now, ret>>

\* Math.round((checkOutTime - checkInTime) / (1000 * 60))
DurationMinutes(a) == Round(Val(a.checkOutTime) - Val(a.checkInTime), MS_PER_MINUTE)

calculateDuration ==
    /\ IF att.checkInTime # None /\ att.checkOutTime # None
       THEN /\ att' = [att EXCEPT !.duration = Some(DurationMinutes(att))]
            /\ ret' = [op |-> "calculateDuration", val |-> DurationMinutes(att),
                       t1 |-> now, t2 |-> now]
       ELSE /\ att' = att
            /\ ret' = [op |-> "calculateDuration", val |-> 0, t1 |-> now, t2 |-> now]
    /\ UNCHANGED <<now, called, visited>>

\* Time passes between calls.
AttTick ==
    /\ \E t \in AttTimePoints : t > now /\ now' = t
    /\ UNCHANGED <<att, called, visited, ret>>

IdleAtt == att = NewAttendance /\ called = {} /\ visited = {}

\* ---- the attendance table
AttSessions == {"s1", "s2"}
AttStudents == {"u1", "u2"}
AttReqs == {"p", "q", "r"}

\* A faulty variant: the (sessionId, studentId) index without unique: true.
AttendanceUniqueDropped(rows, sid, uid) == TRUE

\* indexes: [{ unique: true, fields: ['sessionId', 'studentId'] }]
AttendanceUnique(rows, sid, uid) ==
    \A i \in DOMAIN rows : ~(rows[i].sessionId = sid /\ rows[i].studentId = uid)

\* The error Sequelize raises when an INSERT violates a unique index.
UniqueViolation ==
    [name |-> "SequelizeUniqueConstraintError", code |-> "none", status |-> None,
     statusCode |-> None, message |-> "Validation error"]

NoAttReq == [pc |-> "idle", sessionId |-> "none", studentId |-> "none", resp |-> NoResp]

\* A request to record attendance of student uid in session sid arrives.
AttBuild(r, sid, uid) ==
    /\ areq[r].pc = "idle"
    /\ areq' = [areq EXCEPT ![r] = [pc |-> "built", sessionId |-> sid,
                                    studentId |-> uid, resp |-> NoResp]]
    /\ UNCHANGED attRows

\* Attendance.create, the INSERT: stored, or refused by the unique index and
\* answered by errorHandler.
AttInsert(r) ==
    /\ areq[r].pc = "built"
    /\ IF AttendanceUnique(attRows, areq[r].sessionId, areq[r].studentId)
       THEN /\ attRows' = Append(attRows, [id |-> r, sessionId |-> areq[r].sessionId,
                                           studentId |-> areq[r].studentId,
                                           status |-> "pending"])
            /\ areq' = [areq EXCEPT ![r].pc = "created",
                                    ![r].resp = [statusCode |-> 201, success |-> TRUE,
                                                 message |-> "created"]]
       ELSE /\ attRows' = attRows
            /\ areq' = [areq EXCEPT ![r].pc = "duplicate",
                                    ![r].resp = errorHandler(UniqueViolation)]

IdleAttStore == attRows = <<>> /\ areq = [r \in AttReqs |-> NoAttReq]

(***************************************************************************)
(* Notifications: the auth routes and the bulk senders                     *)
(***************************************************************************)
\* What one sendEmail / sendWhatsAppMessage call does: delivers, returns null
\* because the service is not configured, or throws.
SendOutcomes == {"sent", "skipped", "throws"}

AuthRoutes == {"register", "login", "forgot", "reset"}

\* The sends a handler makes after storing its change: register always mails
\* and messages a user who gave a phone; login messages a user created within
\* the last 24 hours; forgot-password and reset-password mail.
Notifications(rt, hasPhone, recent) ==
    CASE rt = "register" -> IF hasPhone THEN <<"email", "whatsapp">> ELSE <<"email">>
      [] rt = "login" -> IF recent THEN <<"whatsapp">> ELSE <<>>
      [] OTHER -> <<"email">>

\* res.status(201) of register, res.json (200) of the other three.
SuccessStatus(rt) == IF rt = "register" THEN 201 ELSE 200

\* A faulty variant: a send outside its own try/catch.
afterSendRethrows(outcome) == IF outcome = "throws" THEN "aborted" ELSE "saved"

\* try { await send(...) } catch (error) { console.error(...) }
afterSend(outcome) == "saved"

\* No row for the request's email / user id.
NoUser ==
    [exists |-> FALSE, active |-> FALSE, phone |-> FALSE, recent |-> FALSE,
     lastLoginAt |-> None, password |-> "none", resetToken |-> None]

\* The rows a request can find: phone is whether a phone is stored, recent
\* whether createdAt lies within the last 24 hours.
UserRows ==
    {NoUser} \cup
    [exists : {TRUE}, active : BOOLEAN, phone : BOOLEAN, recent : BOOLEAN,
     lastLoginAt : {None}, password : {"old"}, resetToken : {None, Some("tok")}]

\* A faulty variant: forgot-password answers 404 for an unknown email.
ChecksRevealsUnknownEmail(rt, u, ok) ==
    CASE rt = "register" -> IF u.exists THEN 409 ELSE 0
      [] rt = "login" -> IF ~u.exists THEN 401
                         ELSE IF ~u.active THEN 403
                         ELSE IF ~ok THEN 401 ELSE 0
      [] rt = "forgot" -> IF ~u.exists THEN 404 ELSE 0
      [] OTHER -> IF ~ok THEN 400
                  ELSE IF ~u.exists THEN 404
                  ELSE IF u.resetToken # Some("tok") THEN 400 ELSE 0

\* The early returns of a handler: the status it answers before storing
\* anything, 0 when the request passes every check.  ok is whether the
\* password validates (login) or the token verifies as a password_reset token
\* (reset-password); the token presented is "tok".
Checks(rt, u, ok) ==
    CASE rt = "register" -> IF u.exists THEN 409 ELSE 0
      [] rt = "login" -> IF ~u.exists THEN 401
                         ELSE IF ~u.active THEN 403
                         ELSE IF ~ok THEN 401 ELSE 0
      [] rt = "forgot" -> IF ~u.exists THEN 200 ELSE 0
      [] OTHER -> IF ~ok THEN 400
                  ELSE IF ~u.exists THEN 404
                  ELSE IF u.resetToken # Some("tok") THEN 400 ELSE 0

Body(status, message) == [success |-> status \in {200, 201}, message |-> message]

NoBody == [success |-> FALSE, message |-> ""]

\* The message that goes with each early return of Checks.
EarlyMessage(rt, u, ok) ==
    CASE rt = "register" -> "User with this email already exists"
      [] rt = "login" -> IF ~u.exists THEN "Invalid credentials"
                         ELSE IF ~u.active
                              THEN "Account is not active. Please contact support."
                         ELSE "Invalid credentials"
      [] rt = "forgot" ->
            "If an account with that email exists, a password reset link has been sent."
      [] OTHER -> IF ~ok THEN "Invalid or expired reset token"
                  ELSE IF ~u.exists THEN "User not found"
                  ELSE "Invalid or expired reset token"

\* The message of a handler's success response.
SuccessMessage(rt) ==
    CASE rt = "register" -> "User registered successfully"
      [] rt = "login" -> "Login successful"
      [] rt = "forgot" ->
            "If an account with that email exists, a password reset link has been sent."
      [] OTHER -> "Password reset successful"

\* The message of a handler's outer catch.
FailureMessage(rt) ==
    CASE rt = "register" -> "Registration failed"
      [] rt = "login" -> "Login failed"
      [] rt = "forgot" -> "Password reset request failed"
      [] OTHER -> "Password reset failed"

\* The change a handler stores: User.create (register), lastLoginAt (login),
\* the reset token (forgot-password), the new password (reset-password).
Mutation(rt, u, phone) ==
    CASE rt = "register" ->
            [exists |-> TRUE, active |-> TRUE, phone |-> phone, recent |-> TRUE,
             lastLoginAt |-> None, password |-> "new", resetToken |-> None]
      [] rt = "login" -> [u EXCEPT !.lastLoginAt = Some(now)]
      [] rt = "forgot" -> [u EXCEPT !.resetToken = Some("tok")]
      [] OTHER -> [u EXCEPT !.password = "new", !.resetToken = None]

\* A request that fails a check is answered at once.
AuthReject(rt, ok) ==
    /\ apc = "idle" /\ Checks(rt, user, ok) # 0
    /\ route' = rt
    /\ aresp' = Checks(rt, user, ok)
    /\ abody' = Body(aresp', EarlyMessage(rt, user, ok))
    /\ apc' = "responded"
    /\ UNCHANGED <<user, saved, pending, outcomes>>

\* A request that passes the checks: User.create or user.save().
AuthSave(rt, ok, phone) ==
    /\ apc = "idle" /\ Checks(rt, user, ok) = 0
    /\ route' = rt
    /\ user' = Mutation(rt, user, phone)
    /\ saved' = Some(user')
    /\ pending' = Notifications(rt, user'.phone, user'.recent)
    /\ apc' = "saved"
    /\ UNCHANGED <<outcomes, aresp, abody>>

\* The next notification is sent and does outcome.
AuthSend(outcome) ==
    /\ apc = "saved" /\ pending # <<>>
    /\ outcomes' = Append(outcomes, <<Head(pending), outcome>>)
    /\ pending' = Tail(pending)
    /\ apc' = afterSend(outcome)
    /\ UNCHANGED <<route, user, saved, aresp, abody>>

\* The handler answers: its success response, or the outer catch's 500.
AuthRespond ==
    /\ apc \in {"saved", "aborted"}
    /\ apc = "saved" => pending = <<>>
    /\ aresp' = IF apc = "saved" THEN SuccessStatus(route) ELSE 500
    /\ abody' = Body(aresp', IF apc = "saved" THEN SuccessMessage(route)
                             ELSE FailureMessage(route))
    /\ apc' = "responded"
    /\ UNCHANGED <<route, user, saved, pending, outcomes>>

IdleAuth ==
    /\ route = "none" /\ apc = "idle" /\ user = NoUser /\ saved = None
    /\ pending = <<>> /\ outcomes = <<>> /\ aresp = 0 /\ abody = NoBody

\* ---- sendBulkEmails and sendBulkWhatsAppMessages
Channels == {"email", "whatsapp"}
Recipients == {"ann", "bob"}

\* All sequences over S of length n, and of length at most n.
RECURSIVE SeqsOfLen(_, _)
SeqsOfLen(S, n) ==
    IF n = 0 THEN {<<>>}
    ELSE {Append(q, x) : q \in SeqsOfLen(S, n - 1), x \in S}

\* A faulty variant: a bulk send that gives up at the first failure.
afterBulkSendRethrows(outcome) == IF outcome = "throws" THEN "thrown" ELSE "loop"

\* The inner try/catch of the loop: a failure is recorded and the loop goes on.
afterBulkSend(outcome) == "loop"

\* results.push({ success: true, recipient, result }) or
\* results.push({ success: false, recipient, error })
BulkResult(recipient, outcome) ==
    [success |-> outcome # "throws", recipient |-> recipient]

\* One iteration of `for (const recipient of recipients)`.
BulkStep ==
    /\ bpc = "loop" /\ bidx <= Len(recipients)
    /\ attempts' = Append(attempts, recipients[bidx])
    /\ results' = Append(results, BulkResult(recipients[bidx], oracle[bidx]))
    /\ bidx' = bidx + 1
    /\ bpc' = afterBulkSend(oracle[bidx])
    /\ UNCHANGED <<channel, recipients, oracle>>

\* return results
BulkReturn ==
    /\ bpc = "loop" /\ bidx > Len(recipients)
    /\ bpc' = "returned"
    /\ UNCHANGED <<channel, recipients, oracle, bidx, attempts, results>>

IdleBulk ==
    /\ channel = "email" /\ recipients = <<>> /\ oracle = <<>>
    /\ bidx = 1 /\ bpc = "returned" /\ attempts = <<>> /\ results = <<>>

(***************************************************************************)
(* The server's route mounts and authenticateToken                         *)
(***************************************************************************)
\* What the Authorization header of a request carries: no bearer token, a
\* token jwt.verify rejects, one it finds expired, or one it accepts.
TokenKinds == {"missing", "invalid", "expired", "valid"}

UserStatuses == {"active", "inactive", "suspended"}

\* The users row decoded.userId refers to; NoAccount when there is none.
NoAccount == [id |-> 0, status |-> "none"]
Accounts == {NoAccount} \cup [id : {1}, status : UserStatuses]

\* User.findByPk either completes or throws.
Lookups == {"completes", "throws"}

\* app.use mounts under /api.
Mounts == {"auth", "users", "sessions", "attendance", "payments", "syllabus",
           "feedback", "notifications", "admin", "analytics"}

\* The mounts that name authenticateToken before their router.
Protected(mount) == mount # "auth"

Answer(status, message) ==
    [status |-> status, message |-> message, next |-> FALSE, reqUser |-> None,
     body |-> None, sent |-> 1]

\* req.user = user; next()
PassOn(u) ==
    [status |-> 0, message |-> "", next |-> TRUE, reqUser |-> Some(u),
     body |-> None, sent |-> 0]

\* A faulty variant: a user that is not active is let through.
authenticateTokenIgnoresStatus(tok, u, lookup) ==
    IF tok = "missing" THEN Answer(401, "Access token required")
    ELSE IF tok = "expired" THEN Answer(401, "Token expired")
    ELSE IF tok = "invalid" THEN Answer(401, "Invalid token")
    ELSE IF lookup = "throws" THEN Answer(500, "Authentication error")
    ELSE IF u = NoAccount THEN Answer(401, "Invalid token - user not found")
    ELSE PassOn(u)

authenticateToken(tok, u, lookup) ==
    IF tok = "missing" THEN Answer(401, "Access token required")
    ELSE IF tok = "expired" THEN Answer(401, "Token expired")
    ELSE IF tok = "invalid" THEN Answer(401, "Invalid token")
    ELSE IF lookup = "throws" THEN Answer(500, "Authentication error")
    ELSE IF u = NoAccount THEN Answer(401, "Invalid token - user not found")
    ELSE IF u.status # "active" THEN Answer(403, "Account is not active")
    ELSE PassOn(u)

\* router.get('/profile') of the auth router, given req.user.
profile(reqUser) ==
    IF reqUser = None
    THEN [Answer(401, "Authentication required") EXCEPT !.reqUser = reqUser]
    ELSE [Answer(200, "") EXCEPT !.reqUser = reqUser, !.body = reqUser]

\* What reaches the router of a mount: under a protected mount the outcome of
\* authenticateToken, under /api/auth the request as it came, req.user unset.
Through(mount, tok, u, lookup) ==
    IF Protected(mount) THEN authenticateToken(tok, u, lookup)
    ELSE [status |-> 0, message |-> "", next |-> TRUE, reqUser |-> None,
          body |-> None, sent |-> 0]

\* GET /api/auth/profile from the mount to the answer.
GetProfile(tok, u, lookup) ==
    LET g == Through("auth", tok, u, lookup)
    IN  IF g.next THEN profile(g.reqUser) ELSE g

NoGReq == [mount |-> "none", token |-> "missing", user |-> NoAccount, lookup |-> "completes"]
NoGRes == [status |-> 0, message |-> "", next |-> FALSE, reqUser |-> None,
           body |-> None, sent |-> 0]

\* One request to a mount: to GET /profile under /api/auth, to any route
\* under the others.
Request(mount, tok, u, lookup) ==
    /\ greq' = [mount |-> mount, token |-> tok, user |-> u, lookup |-> lookup]
    /\ gres' = IF mount = "auth" THEN GetProfile(tok, u, lookup)
               ELSE Through(mount, tok, u, lookup)

IdleGate == greq = NoGReq /\ gres = NoGRes


(***************************************************************************)
(* The client: localStorage, the axios instance and AuthProvider           *)
(***************************************************************************)
AccessTokens == {"valid", "expired", "invalid"}
RefreshTokens == {"valid", "invalid"}
Credentials == {"good", "bad"}
Networks == {"up", "down"}

\* What jwt.verify makes of a stored token that is sent, or of none.
Stored(o) == IF o = None THEN "missing" ELSE Val(o)

\* router.post('/login')
login(creds, u) ==
    IF u = NoAccount THEN Answer(401, "Invalid credentials")
    ELSE IF u.status # "active"
         THEN Answer(403, "Account is not active. Please contact support.")
    ELSE IF creds = "bad" THEN Answer(401, "Invalid credentials")
    ELSE [Answer(200, "Login successful") EXCEPT !.body = Some(u)]

\* router.post('/refresh-token')
refreshTokenRoute(rtok, u) ==
    IF rtok = "missing" THEN Answer(400, "Refresh token required")
    ELSE IF rtok = "invalid" THEN Answer(401, "Invalid refresh token")
    ELSE IF u = NoAccount \/ u.status # "active"
         THEN Answer(401, "User not found or inactive")
    ELSE Answer(200, "Token refreshed successfully")

\* router.post('/logout')
logoutRoute == Answer(200, "Logout successful")

\* The paths the client calls: three routes of /api/auth and a route under a
\* protected mount, whose handler answers 200.
Paths == {"profile", "login", "logout", "users"}

ApiAnswer(path, tok, u, creds) ==
    IF path = "profile" THEN GetProfile(tok, u, "completes")
    ELSE IF path = "login" THEN login(creds, u)
    ELSE IF path = "logout" THEN logoutRoute
    ELSE LET g == Through(path, tok, u, "completes")
         IN  IF g.next THEN [Answer(200, "") EXCEPT !.reqUser = g.reqUser] ELSE g

\* No response at all: error.response is undefined.
NoAnswer == Answer(0, "")

\* authReducer
SET_LOADING(st, payload) == [st EXCEPT !.loading = payload]
SET_USER(st, payload) == [st EXCEPT !.user = payload, !.loading = FALSE, !.error = None]
SET_TOKEN(st, payload) == [st EXCEPT !.token = payload]
LOGOUT(st) == [st EXCEPT !.user = None, !.token = None, !.loading = FALSE, !.error = None]
SET_ERROR(st, payload) == [st EXCEPT !.error = payload, !.loading = FALSE]
CLEAR_ERROR(st) == [st EXCEPT !.error = None]

\* initialState
initialState(l) == [user |-> None, token |-> l.token, loading |-> TRUE, error |-> None]

removeItem(l, key) == [l EXCEPT ![key] = None]

\* A faulty variant: every 401 is refreshed and retried, the flag ignored.
shouldRefreshIgnoresRetry(status, retryFlag) == status = 401

\* error.response?.status === 401 && !originalRequest._retry
shouldRefresh(status, retryFlag) == status = 401 /\ ~retryFlag

NoReq == [path |-> "none", creds |-> "good", pc |-> "idle", retry |-> FALSE,
          answers |-> <<>>, refreshes |-> 0, retries |-> 0, loaded |-> None,
          netfail |-> FALSE]

\* api.get / api.post: one original request, sent.
NewReq(path, creds, loaded) ==
    [NoReq EXCEPT !.path = path, !.creds = creds, !.pc = "sent", !.loaded = loaded]

NoDone == [flow |-> "none", outcome |-> "none", req |-> NoReq, refreshFailed |-> FALSE]

\* A faulty variant: the cleanup runs only when the logout call succeeded.
logoutFinallyOnSuccessOnly(ok, c) ==
    IF ok
    THEN [ls |-> removeItem(removeItem(c.ls, "token"), "refreshToken"),
          header |-> None,
          authState |-> LOGOUT(c.authState)]
    ELSE c

\* logout(): what follows the try, however the call ended.
logoutFinally(ok, c) ==
    [ls |-> removeItem(removeItem(c.ls, "token"), "refreshToken"),
     header |-> None,
     authState |-> LOGOUT(c.authState)]

\* What the caller of the request does once it is resolved (ok) or rejected,
\* on the client state c = [ls, header, authState].
Continue(flow, ok, a, c) ==
    IF flow = "init"
    THEN IF ok
         THEN [c EXCEPT !.authState = SET_USER(c.authState, a.body)]
         ELSE [c EXCEPT !.ls = removeItem(c.ls, "token"),
                        !.authState = LOGOUT(c.authState)]
    ELSE IF flow = "logout" THEN logoutFinally(ok, c)
    ELSE IF flow = "login"
    THEN IF ok
         THEN [ls |-> [token |-> Some("valid"), refreshToken |-> Some("valid")],
               header |-> Some("valid"),
               authState |-> SET_USER(SET_TOKEN(c.authState, Some("valid")), a.body)]
         ELSE [c EXCEPT !.authState = SET_ERROR(c.authState, Some("Invalid credentials"))]
    ELSE c

Client == [ls |-> ls, header |-> header, authState |-> authState]

\* The request is settled and its caller runs on.
Settle(ok, a, c, req, refreshFailed) ==
    LET d == Continue(kflow, ok, a, c)
    IN  /\ ls' = d.ls /\ header' = d.header /\ authState' = d.authState
        /\ kreq' = NoReq
        /\ kdone' = [flow |-> kflow, outcome |-> IF ok THEN "resolved" ELSE "rejected",
                     req |-> req, refreshFailed |-> refreshFailed]
        /\ kflow' = "ready"

\* useEffect(() => initializeAuth(), []) on application load.
initializeAuth ==
    /\ kflow = "none"
    /\ kdone' = [NoDone EXCEPT !.flow = "init", !.req.loaded = ls.token]
    /\ IF ls.token = None
       THEN /\ authState' = SET_LOADING(authState, FALSE)
            /\ kflow' = "ready"
            /\ UNCHANGED <<ls, header, kreq>>
       ELSE IF Val(ls.token) = "expired"
       THEN /\ ls' = removeItem(ls, "token")
            /\ authState' = LOGOUT(authState)
            /\ kflow' = "ready"
            /\ UNCHANGED <<header, kreq>>
       ELSE /\ header' = ls.token
            /\ kreq' = NewReq("profile", "good", ls.token)
            /\ kflow' = "init"
            /\ UNCHANGED <<ls, authState>>
    /\ UNCHANGED <<location, account>>

\* logout()
logout ==
    /\ kflow = "ready"
    /\ IF authState.token # None
       THEN /\ kreq' = NewReq("logout", "good", ls.token)
            /\ kflow' = "logout"
            /\ kdone' = NoDone
            /\ UNCHANGED <<ls, header, authState>>
       ELSE LET d == logoutFinally(TRUE, Client)
            IN  /\ ls' = d.ls /\ header' = d.header /\ authState' = d.authState
                /\ kdone' = [NoDone EXCEPT !.flow = "logout", !.req.loaded = ls.token]
                /\ UNCHANGED <<kreq, kflow>>
    /\ UNCHANGED <<location, account>>

\* login(email, password) up to its request.
StartLogin(creds) ==
    /\ kflow = "ready"
    /\ authState' = CLEAR_ERROR(SET_LOADING(authState, TRUE))
    /\ kreq' = NewReq("login", creds, ls.token)
    /\ kflow' = "login"
    /\ kdone' = NoDone
    /\ UNCHANGED <<ls, header, location, account>>

\* Any other call through the axios instance, to a protected mount.
StartCall ==
    /\ kflow = "ready"
    /\ kreq' = NewReq("users", "good", ls.token)
    /\ kflow' = "call"
    /\ kdone' = NoDone
    /\ UNCHANGED <<ls, header, authState, location, account>>

\* The answer to the request in flight arrives and passes the response
\* interceptor: a 401 not yet retried starts a refresh when a refresh token
\* is stored, anything else settles the request.
Respond(net) ==
    /\ kreq.pc = "sent"
    /\ LET a == IF net = "down" THEN NoAnswer
                ELSE ApiAnswer(kreq.path, Stored(ls.token), account, kreq.creds)
           req == [kreq EXCEPT !.answers = Append(@, a.status),
                               !.netfail = @ \/ net = "down"]
       IN  IF shouldRefresh(a.status, kreq.retry)
           THEN IF ls.refreshToken # None
                THEN /\ kreq' = [req EXCEPT !.retry = TRUE, !.pc = "refreshing",
                                            !.refreshes = @ + 1]
                     /\ UNCHANGED <<ls, header, authState, kflow, kdone>>
                ELSE Settle(FALSE, a, Client, [req EXCEPT !.retry = TRUE], FALSE)
           ELSE Settle(a.status = 200, a, Client, req, FALSE)
    /\ UNCHANGED <<location, account>>

\* The answer to the refresh call arrives: the new access token is stored
\* and the original request sent again, or both tokens are removed, the
\* browser sent to /login and the request rejected.
RefreshRespond(net) ==
    /\ kreq.pc = "refreshing"
    /\ LET r == IF net = "down" THEN NoAnswer
                ELSE refreshTokenRoute(Stored(ls.refreshToken), account)
           req == [kreq EXCEPT !.netfail = @ \/ net = "down"]
       IN  IF r.status = 200
           THEN /\ ls' = [ls EXCEPT !.token = Some("valid")]
                /\ kreq' = [req EXCEPT !.pc = "sent", !.retries = @ + 1]
                /\ UNCHANGED <<header, authState, kflow, kdone, location>>
           ELSE /\ location' = "/login"
                /\ Settle(FALSE, r,
                          [Client EXCEPT !.ls = removeItem(removeItem(ls, "token"),
                                                           "refreshToken")],
                          req, TRUE)
    /\ UNCHANGED account

IdleClient ==
    /\ ls = [token |-> None, refreshToken |-> None]
    /\ authState = initialState(ls) /\ header = None /\ location = "/"
    /\ account = NoAccount /\ kflow = "none" /\ kreq = NoReq /\ kdone = NoDone


(***************************************************************************)
(* Password-reset tokens: forgot-password and reset-password               *)
(***************************************************************************)
MS_PER_SECOND == 1000
RESET_JWT_SECONDS == 3600

\* The instants requests arrive at: within one second, a second later, and
\* around the hour after.
ResetTimes == {0, 400, 1000, MS_PER_HOUR, MS_PER_HOUR + 400, MS_PER_HOUR + 1000}

\* jwt.sign({ userId, type: 'password_reset' }, JWT_SECRET, { expiresIn: '1h' })
\* at instant t: the payload carries iat and exp in whole seconds and the
\* signature is a function of the payload, so the token is its payload.
sign(t) ==
    [iat |-> t \div MS_PER_SECOND, exp |-> (t \div MS_PER_SECOND) + RESET_JWT_SECONDS,
     type |-> "password_reset", signed |-> TRUE]

\* A token not signed with JWT_SECRET.
Forged ==
    [iat |-> 0, exp |-> RESET_JWT_SECONDS, type |-> "password_reset", signed |-> FALSE]

\* A token signed with JWT_SECRET for another purpose: the user's access
\* token, valid for 24 hours.
AccessToken == [iat |-> 0, exp |-> 24 * RESET_JWT_SECONDS, type |-> "access", signed |-> TRUE]

\* jwt.verify(token, JWT_SECRET) at instant t does not throw.
verify(tok, t) == tok.signed /\ (t \div MS_PER_SECOND) < tok.exp

Passwords == {"p1", "p2"}

\* router.post('/reset-password') for the stored user u at instant t: the
\* status answered and the row as it is left.
resetPassword(u, tok, pw, t) ==
    IF ~verify(tok, t) THEN [status |-> 400, user |-> u]
    ELSE IF tok.type # "password_reset" THEN [status |-> 400, user |-> u]
    ELSE IF u.resetToken = None \/ Val(u.resetToken) # tok
            \/ Val(u.resetTokenExpires) < t
         THEN [status |-> 400, user |-> u]
    ELSE [status |-> 200,
          user |-> [u EXCEPT !.password = pw, !.resetToken = None,
                             !.resetTokenExpires = None]]

\* router.post('/forgot-password') for the stored user u at instant t.
forgotPassword(u, t) ==
    [u EXCEPT !.resetToken = Some(sign(t)),
              !.resetTokenExpires = Some(t + MS_PER_HOUR)]

NoAttempt ==
    [token |-> Forged, status |-> 0, before |-> "none", after |-> "none",
     reused |-> FALSE, superseded |-> FALSE, stored |-> None, expires |-> None,
     at |-> 0]

\* A forgot-password request for the user's email.
ForgotPassword ==
    /\ Len(rissued) < MaxResetRequests
    /\ racct' = forgotPassword(racct, rnow)
    /\ rissued' = Append(rissued, sign(rnow))
    /\ UNCHANGED <<rused, rlast, rnow>>

\* A reset-password request presenting a token issued earlier or a forged one.
ResetPassword(tok, pw) ==
    /\ LET r == resetPassword(racct, tok, pw, rnow)
       IN  /\ racct' = r.user
           /\ rused' = IF r.status = 200 THEN rused \cup {tok} ELSE rused
           /\ rlast' = [token |-> tok, status |-> r.status,
                        before |-> racct.password, after |-> r.user.password,
                        reused |-> tok \in rused,
                        superseded |-> /\ \E i \in 1..Len(rissued) : rissued[i] = tok
                                       /\ rissued[Len(rissued)] # tok,
                        stored |-> racct.resetToken,
                        expires |-> racct.resetTokenExpires,
                        at |-> rnow]
    /\ UNCHANGED <<rissued, rnow>>

\* Time passes to the next instant.
ResetTick ==
    /\ \E t \in ResetTimes :
          /\ t > rnow
          /\ \A s \in ResetTimes : s > rnow => t <= s
          /\ rnow' = t
    /\ UNCHANGED <<racct, rissued, rused, rlast>>

IdleReset ==
    /\ racct = [password |-> "old", resetToken |-> None, resetTokenExpires |-> None]
    /\ rissued = <<>> /\ rused = {} /\ rlast = NoAttempt /\ rnow = 0


(***************************************************************************)
(* Registration: the users table under POST /register                      *)
(***************************************************************************)
RegReqs == {"r1", "r2", "r3"}
Emails == {"ann@std.com", "bob@tut.com"}

\* User.findByEmail(email)
findByEmail(rows, email) == \E i \in 1..Len(rows) : rows[i].email = email

\* users.email is UNIQUE.
UsersEmailUnique(rows) ==
    \A i, j \in 1..Len(rows) : rows[i].email = rows[j].email => i = j

NoRegReq == [pc |-> "idle", email |-> "none", held |-> FALSE, status |-> 0,
             created |-> FALSE]

\* The handler up to its check: await User.findByEmail(email), and the 409
\* when a user is found.
RegFind(r, email) ==
    /\ regreq[r].pc = "idle"
    /\ regreq' = [regreq EXCEPT ![r] =
          IF findByEmail(users, email)
          THEN [pc |-> "done", email |-> email, held |-> TRUE, status |-> 409,
                created |-> FALSE]
          ELSE [pc |-> "checked", email |-> email, held |-> FALSE, status |-> 0,
                created |-> FALSE]]
    /\ UNCHANGED users

\* The handler from await User.create on: the row is inserted and 201
\* answered, or the insert breaks the unique key, User.create throws and the
\* handler's catch answers 500.
RegCreate(r) ==
    /\ regreq[r].pc = "checked"
    /\ LET row == [id |-> Len(users) + 1, email |-> regreq[r].email]
           held == findByEmail(users, regreq[r].email)
       IN  IF UsersEmailUnique(Append(users, row))
           THEN /\ users' = Append(users, row)
                /\ regreq' = [regreq EXCEPT ![r].pc = "done", ![r].held = held,
                                            ![r].status = 201, ![r].created = TRUE]
           ELSE /\ users' = users
                /\ regreq' = [regreq EXCEPT ![r].pc = "done", ![r].held = held,
                                            ![r].status = 500]

IdleReg == users = <<>> /\ regreq = [r \in RegReqs |-> NoRegReq]


(***************************************************************************)
(* ThemeProvider                                                           *)
(***************************************************************************)
\* getInitialTheme: the saved theme when there is one, else the system's.
getInitialTheme(savedTheme, prefersDark) ==
    IF savedTheme # None THEN Val(savedTheme) = "dark"
    ELSE prefersDark

\* useEffect(..., [darkMode]): localStorage.setItem('theme', ...)
persist(dark) == Some(IF dark THEN "dark" ELSE "light")

NoChange == [matches |-> FALSE, before |-> FALSE, after |-> FALSE,
             manual |-> FALSE, heard |-> FALSE]

\* The provider's effects run after its first render: the theme is saved
\* and the listener for system changes is added.
ThemeMount ==
    /\ ~mounted
    /\ mounted' = TRUE
    /\ lsTheme' = persist(darkMode)
    /\ UNCHANGED <<darkMode, sysDark, manual, tlast>>

\* The page is loaded again: useState(getInitialTheme).
ThemeReload ==
    /\ mounted
    /\ mounted' = FALSE
    /\ darkMode' = getInitialTheme(lsTheme, sysDark)
    /\ UNCHANGED <<lsTheme, sysDark, manual, tlast>>

\* toggleTheme(), followed by the saving effect.
toggleTheme ==
    /\ mounted
    /\ darkMode' = ~darkMode
    /\ lsTheme' = persist(darkMode')
    /\ manual' = TRUE
    /\ UNCHANGED <<sysDark, mounted, tlast>>

\* setTheme(isDark), followed by the saving effect when darkMode changed.
setTheme(isDark) ==
    /\ mounted
    /\ darkMode' = isDark
    /\ lsTheme' = IF darkMode' # darkMode THEN persist(darkMode') ELSE lsTheme
    /\ manual' = TRUE
    /\ UNCHANGED <<sysDark, mounted, tlast>>

\* The system colour scheme changes; once the listener is added, handleChange
\* runs: if (!localStorage.getItem('theme')) setDarkMode(e.matches), followed
\* by the saving effect when darkMode changed.
SystemChange(matches) ==
    /\ matches # sysDark
    /\ sysDark' = matches
    /\ darkMode' = IF mounted /\ lsTheme = None THEN matches ELSE darkMode
    /\ lsTheme' = IF darkMode' # darkMode THEN persist(darkMode') ELSE lsTheme
    /\ tlast' = [matches |-> matches, before |-> darkMode, after |-> darkMode',
                 manual |-> manual, heard |-> mounted]
    /\ UNCHANGED <<manual, mounted>>

\* The browser's storage for the site is cleared.
ClearStorage ==
    /\ lsTheme # None
    /\ lsTheme' = None
    /\ UNCHANGED <<darkMode, sysDark, manual, mounted, tlast>>

IdleTheme ==
    /\ lsTheme = None /\ darkMode = FALSE /\ sysDark = FALSE /\ manual = FALSE
    /\ mounted = FALSE /\ tlast = NoChange

IdleWeb == IdleGate /\ IdleClient /\ IdleReset /\ IdleReg /\ IdleTheme


(***************************************************************************)
(* Specifications                                                          *)
(***************************************************************************)
\* The part of the state a specification does not exercise.
IdleSession ==
    /\ sStatus = "scheduled" /\ maxStudents = 1 /\ currentStudents = 0
    /\ cur0 = 0 /\ enrolled = {}
    /\ pc = [r \in Req |-> "idle"]
    /\ seen = [r \in Req |-> NoRow]
    /\ jerr = [r \in Req |-> "none"]

IdlePayment ==
    /\ now = 0 /\ ret = NoRet
    /\ CreatePayment(0, "prod", "pending", 0, None)

\* The parts added to the state after the single session and payment.
IdleRest == IdleErr /\ IdleAttStore /\ IdleAtt /\ IdleAuth /\ IdleBulk /\ IdleWeb

IdleExt == IdleStore /\ IdleRest

\* Joins executed one at a time.
InitSerial == InitSession /\ IdlePayment /\ IdleExt

NextSerial ==
    \E r \in Req :
        \/ SerialJoinRead(r) /\ UNCHANGED <<paymentVars, extVars, now, ret>>
        \/ JoinReject(r) /\ UNCHANGED <<paymentVars, extVars, now, ret>>
        \/ JoinSave(r) /\ UNCHANGED <<paymentVars, extVars, now, ret>>
        \/ JoinIncrement(r) /\ UNCHANGED <<paymentVars, extVars, now, ret>>

SpecSerial == InitSerial /\ [][NextSerial]_vars

\* Joins of concurrent requests, interleaved at their storage calls.
NextConcurrent ==
    \E r \in Req :
        \/ JoinRead(r) /\ UNCHANGED <<paymentVars, extVars, now, ret>>
        \/ JoinReject(r) /\ UNCHANGED <<paymentVars, extVars, now, ret>>
        \/ JoinSave(r) /\ UNCHANGED <<paymentVars, extVars, now, ret>>
        \/ JoinIncrement(r) /\ UNCHANGED <<paymentVars, extVars, now, ret>>

SpecConcurrent == InitSerial /\ [][NextConcurrent]_vars

\* One payment under its transition methods.
InitPayment ==
    /\ IdleSession /\ IdleExt
    /\ now = 0 /\ ret = NoRet
    /\ \E flag \in EnvFlags, st \in PaymentStatuses, amt \in 0..MaxAmount :
          CreatePayment(0, flag, st, amt, None)

NextPayment ==
    \/ \E tx \in {None} \cup {Some(x) : x \in TransactionIds},
          gw \in {None} \cup {Some(g) : g \in GatewayResponses} :
          markAsCompleted(tx, gw)
    \/ \E gw \in {None} \cup {Some(g) : g \in GatewayResponses} : markAsFailed(gw)
    \/ \E a \in 0..(MaxAmount + 1), reason \in Reasons : refund(a, reason)
    \/ TickDay

SpecPayment == InitPayment /\ [][NextPayment]_vars

\* One payment read by isOverdue() and getDaysOverdue() as time passes.
InitOverdue ==
    /\ IdleSession /\ IdleExt
    /\ ret = NoRet
    /\ now \in TimePoints
    /\ \E flag \in {"dev", "prod"}, st \in PaymentStatuses,
          due \in {None} \cup {Some(t) : t \in TimePoints} :
          CreatePayment(now, flag, st, 0, due)

NextOverdue ==
    \/ Tick
    \/ CallIsOverdue
    \/ CallGetDaysOverdue

SpecOverdue == InitOverdue /\ [][NextOverdue]_vars

\* One stored payment read by isOverdue() and searched by findOverdue() as
\* time passes.
NextFindOverdue ==
    \/ Tick
    \/ CallIsOverdue
    \/ CallFindOverdue

SpecFindOverdue == InitOverdue /\ [][NextFindOverdue]_vars

\* The payments table under creations.
InitStore ==
    /\ IdleSession /\ IdlePayment /\ IdleRest
    /\ envFlag \in {"dev", "prod"}
    /\ store = <<>>
    /\ cpc = [c \in Creations |-> "idle"]
    /\ draft = [c \in Creations |-> NoDraft]
    /\ issued = <<>>
    /\ clock = MonthStart([mo |-> 0])

StoreFrame == UNCHANGED <<sessionVars, paymentVars, now, ret, errVars, attStoreVars, attVars, authVars, bulkVars, webVars>>

\* Payments created one at a time.
NextInvoiceSerial ==
    \/ \E c \in Creations :
          SerialHookCount(c, "pending", MaxAmount, "credit_card", "prod", None)
          /\ StoreFrame
    \/ \E c \in Creations : Insert(c) /\ StoreFrame
    \/ ClockTick /\ StoreFrame

SpecInvoiceSerial == InitStore /\ [][NextInvoiceSerial]_vars

\* Payments created by concurrent requests, interleaved at the storage calls,
\* at any one instant of the calendar.
InitStoreAt ==
    /\ IdleSession /\ IdlePayment /\ IdleRest
    /\ envFlag \in {"dev", "prod"}
    /\ store = <<>>
    /\ cpc = [c \in Creations |-> "idle"]
    /\ draft = [c \in Creations |-> NoDraft]
    /\ issued = <<>>
    /\ clock \in ClockPoints

NextInvoiceConcurrent ==
    \/ \E c \in Creations :
          HookCount(c, "pending", MaxAmount, "credit_card", "prod", None)
          /\ StoreFrame
    \/ \E c \in Creations : Insert(c) /\ StoreFrame

SpecInvoiceConcurrent == InitStoreAt /\ [][NextInvoiceConcurrent]_vars

\* One creation with any supplied values under any environment flag.
InitCreate ==
    /\ IdleSession /\ IdlePayment /\ IdleRest
    /\ envFlag \in EnvFlags
    /\ store = <<>>
    /\ cpc = [c \in Creations |-> "idle"]
    /\ draft = [c \in Creations |-> NoDraft]
    /\ issued = <<>>
    /\ clock \in ClockPoints

NextCreate ==
    \/ \E st \in PaymentStatuses, amt \in 0..MaxAmount, pm \in PaymentMethods,
          env \in {"dev", "prod"}, inv \in {None, Some(SuppliedNumber)} :
          /\ store = <<>>
          /\ SerialHookCount("a", st, amt, pm, env, inv)
          /\ StoreFrame
    \/ Insert("a") /\ StoreFrame

SpecCreate == InitCreate /\ [][NextCreate]_vars

\* Errors answered by the middleware, one after another.
InitError == IdleSession /\ IdlePayment /\ IdleExt

NextError ==
    \E err \in Errors :
        HandleError(err)
        /\ UNCHANGED <<sessionVars, paymentVars, now, ret, storeVars, attStoreVars, attVars, authVars, bulkVars, webVars>>

SpecError == InitError /\ [][NextError]_vars

\* One attendance instance under its methods.
InitAttendance ==
    /\ IdleSession /\ IdlePayment /\ IdleStore /\ IdleErr /\ IdleAttStore
    /\ IdleAuth /\ IdleBulk /\ IdleWeb
    /\ called = {} /\ visited = {}
    /\ \/ att = NewAttendance
       \/ \E st \in AttendanceStatuses \ {"pending"} : att = SeedAttendance(st, 0)

AttFrame ==
    UNCHANGED <<sessionVars, paymentVars, storeVars, errVars, attStoreVars, authVars,
                bulkVars, webVars>>

NextAttendance ==
    \/ \E by \in Markers : markPresent(by) /\ AttFrame
    \/ \E by \in Markers, reason \in AbsenceReasons : markAbsent(by, reason) /\ AttFrame
    \/ \E by \in Markers : markLate(by) /\ AttFrame
    \/ calculateDuration /\ AttFrame
    \/ AttTick /\ AttFrame

SpecAttendance == InitAttendance /\ [][NextAttendance]_vars

\* Attendance rows created by concurrent requests.
InitAttendanceCreate ==
    IdleSession /\ IdlePayment /\ IdleExt

AttStoreFrame ==
    UNCHANGED <<sessionVars, paymentVars, now, ret, storeVars, errVars, attVars,
                authVars, bulkVars, webVars>>

NextAttendanceCreate ==
    \/ \E r \in AttReqs, sid \in AttSessions, uid \in AttStudents :
          AttBuild(r, sid, uid) /\ AttStoreFrame
    \/ \E r \in AttReqs : AttInsert(r) /\ AttStoreFrame

SpecAttendanceCreate == InitAttendanceCreate /\ [][NextAttendanceCreate]_vars

\* One request to an auth route, from the storing of its change on.
InitAuth ==
    /\ IdleSession /\ IdlePayment /\ IdleStore
    /\ IdleErr /\ IdleAttStore /\ IdleAtt /\ IdleBulk /\ IdleWeb
    /\ route = "none" /\ apc = "idle" /\ user \in UserRows /\ saved = None
    /\ pending = <<>> /\ outcomes = <<>> /\ aresp = 0 /\ abody = NoBody

AuthFrame ==
    UNCHANGED <<sessionVars, paymentVars, now, ret, storeVars, errVars, attStoreVars,
                attVars, bulkVars, webVars>>

NextAuth ==
    \/ \E rt \in AuthRoutes, ok \in BOOLEAN : AuthReject(rt, ok) /\ AuthFrame
    \/ \E rt \in AuthRoutes, ok \in BOOLEAN, phone \in BOOLEAN :
          AuthSave(rt, ok, phone) /\ AuthFrame
    \/ \E outcome \in SendOutcomes : AuthSend(outcome) /\ AuthFrame
    \/ AuthRespond /\ AuthFrame

SpecAuth == InitAuth /\ [][NextAuth]_vars

\* One bulk send over any recipients list, each send doing anything.
InitBulk ==
    /\ IdleSession /\ IdlePayment /\ IdleStore
    /\ IdleErr /\ IdleAttStore /\ IdleAtt /\ IdleAuth /\ IdleWeb
    /\ channel \in Channels
    /\ \E n \in 0..MaxRecipients :
          /\ recipients \in SeqsOfLen(Recipients, n)
          /\ oracle \in SeqsOfLen(SendOutcomes, n)
    /\ bidx = 1 /\ bpc = "loop" /\ attempts = <<>> /\ results = <<>>

BulkFrame ==
    UNCHANGED <<sessionVars, paymentVars, now, ret, storeVars, errVars, attStoreVars,
                attVars, authVars, webVars>>

NextBulk ==
    \/ BulkStep /\ BulkFrame
    \/ BulkReturn /\ BulkFrame

SpecBulk == InitBulk /\ [][NextBulk]_vars

\* Requests through the route mounts, one after another.
InitGate == IdleSession /\ IdlePayment /\ IdleExt

GateFrame ==
    UNCHANGED <<sessionVars, paymentVars, now, ret, storeVars, errVars, attStoreVars,
                attVars, authVars, bulkVars, clientVars, resetVars, regVars, themeVars>>

NextGate ==
    \E mount \in Mounts, tok \in TokenKinds, u \in Accounts, lookup \in Lookups :
        Request(mount, tok, u, lookup) /\ GateFrame

SpecGate == InitGate /\ [][NextGate]_vars


\* The pieces of the state outside the HTTP layer and the client.
IdleCore ==
    /\ IdleSession /\ IdlePayment /\ IdleStore
    /\ IdleErr /\ IdleAttStore /\ IdleAtt /\ IdleAuth /\ IdleBulk

CoreFrame ==
    UNCHANGED <<sessionVars, paymentVars, now, ret, storeVars, errVars, attStoreVars,
                attVars, authVars, bulkVars>>

\* One browser session from application load on, with any stored tokens and
\* any account behind them.
InitClient ==
    /\ IdleCore /\ IdleGate /\ IdleReset /\ IdleReg /\ IdleTheme
    /\ ls \in [token : {None} \cup {Some(t) : t \in AccessTokens},
               refreshToken : {None} \cup {Some(t) : t \in RefreshTokens}]
    /\ authState = initialState(ls) /\ header = None /\ location = "/"
    /\ account \in Accounts
    /\ kflow = "none" /\ kreq = NoReq /\ kdone = NoDone

ClientFrame == CoreFrame /\ UNCHANGED <<gateVars, resetVars, regVars, themeVars>>

NextClient ==
    \/ initializeAuth /\ ClientFrame
    \/ logout /\ ClientFrame
    \/ \E creds \in Credentials : StartLogin(creds) /\ ClientFrame
    \/ StartCall /\ ClientFrame
    \/ \E net \in Networks : Respond(net) /\ ClientFrame
    \/ \E net \in Networks : RefreshRespond(net) /\ ClientFrame

SpecClient == InitClient /\ [][NextClient]_vars


\* Forgot-password and reset-password requests for one user, over time.
InitReset == IdleCore /\ IdleGate /\ IdleClient /\ IdleReset /\ IdleReg /\ IdleTheme

ResetFrame == CoreFrame /\ UNCHANGED <<gateVars, clientVars, regVars, themeVars>>

NextReset ==
    \/ ForgotPassword /\ ResetFrame
    \/ \E tok \in {rissued[i] : i \in 1..Len(rissued)} \cup {Forged, AccessToken},
          pw \in Passwords :
          ResetPassword(tok, pw) /\ ResetFrame
    \/ ResetTick /\ ResetFrame

SpecReset == InitReset /\ [][NextReset]_vars


\* Registration requests interleaved at their storage calls, over a users
\* table that may already hold a user.
InitReg ==
    /\ IdleCore /\ IdleGate /\ IdleClient /\ IdleReset /\ IdleTheme
    /\ \/ users = <<>>
       \/ \E e \in Emails : users = <<[id |-> 1, email |-> e]>>
    /\ regreq = [r \in RegReqs |-> NoRegReq]

RegFrame == CoreFrame /\ UNCHANGED <<gateVars, clientVars, resetVars, themeVars>>

NextReg ==
    \/ \E r \in RegReqs, email \in Emails : RegFind(r, email) /\ RegFrame
    \/ \E r \in RegReqs : RegCreate(r) /\ RegFrame

SpecReg == InitReg /\ [][NextReg]_vars


\* The ThemeProvider from a first load on, under any system preference.
InitTheme ==
    /\ IdleCore /\ IdleGate /\ IdleClient /\ IdleReset /\ IdleReg
    /\ lsTheme = None /\ sysDark \in BOOLEAN
    /\ darkMode = getInitialTheme(lsTheme, sysDark)
    /\ manual = FALSE /\ mounted = FALSE /\ tlast = NoChange

ThemeFrame == CoreFrame /\ UNCHANGED <<gateVars, clientVars, resetVars, regVars>>

NextTheme ==
    \/ ThemeMount /\ ThemeFrame
    \/ ThemeReload /\ ThemeFrame
    \/ toggleTheme /\ ThemeFrame
    \/ \E isDark \in BOOLEAN : setTheme(isDark) /\ ThemeFrame
    \/ \E matches \in BOOLEAN : SystemChange(matches) /\ ThemeFrame
    \/ ClearStorage /\ ThemeFrame

SpecTheme == InitTheme /\ [][NextTheme]_vars


Spec == SpecSerial

(***************************************************************************)
(* Claims                                                                  *)
(***************************************************************************)
Joinable(s) == s.status = "scheduled" /\ s.currentStudents < s.maxStudents

\* C1: canJoin() is true exactly when status is 'scheduled' and
\* currentStudents < maxStudents, on the stored row and on every instance a
\* request loaded; a request is accepted or refused as canJoin() answered.
C1_CanJoinIffScheduledWithRoom ==
    /\ canJoin(Row) = Joinable(Row)
    /\ (sStatus # "scheduled" => ~canJoin(Row))
    /\ \A r \in Req :
          /\ pc[r] # "idle" => canJoin(seen[r]) = Joinable(seen[r])
          /\ pc[r] = "joined" => Joinable(seen[r])
          /\ pc[r] = "rejected" => ~Joinable(seen[r])

\* C1 witness: a session with room that is not 'scheduled' refused a request.
C1_Witness ==
    /\ sStatus = "ongoing" /\ currentStudents < maxStudents
    /\ \E r \in Req : pc[r] = "rejected" /\ seen[r] = Row

\* C2: in every state reached by joins executed one at a time from any session
\* that can be created, currentStudents <= maxStudents.
C2_SerialJoinsKeepCapacity == currentStudents <= maxStudents

\* C3: under interleaved joins no write of a request that saw room is refused:
\* every finished request whose loaded instance was joinable is enrolled, so
\* the capacity can be overshot.
C3_OvershootingWriteAccepted ==
    \A r \in Req :
        (pc[r] \in {"joined", "rejected"} /\ Joinable(seen[r]))
            => (pc[r] = "joined" /\ r \in enrolled /\ jerr[r] = "none")

\* C3 witness: a session created within its capacity holds more students than
\* maxStudents, with the counter above maxStudents or below the enrolment.
C3_Witness ==
    /\ cur0 <= maxStudents
    /\ Cardinality(enrolled) >= 2
    /\ cur0 + Cardinality(enrolled) > maxStudents
    /\ \/ currentStudents > maxStudents
       \/ cur0 + Cardinality(enrolled) > currentStudents

\* A request that ends on a full or non-scheduled row ends refused, the row kept.
C4_Step ==
    \A r \in Req :
        (pc[r] = "read" /\ pc'[r] # "read" /\ ~Joinable(Row))
            => /\ pc'[r] = "rejected"
               /\ jerr'[r] = IF sStatus # "scheduled" THEN "InvalidStateError"
                                                     ELSE "CapacityError"
               /\ currentStudents' = currentStudents
               /\ sStatus' = sStatus

\* maxStudents = 1, currentStudents = 0: one join succeeds, the others are refused.
C4_Scenario ==
    (cur0 = 0 /\ maxStudents = 1 /\ sStatus = "scheduled") =>
        \A r \in Req :
            /\ pc[r] = "joined" =>
                  /\ currentStudents = 1
                  /\ ~canJoin(Row)
                  /\ \A q \in Req \ {r} : pc[q] # "joined"
            /\ pc[r] = "rejected" =>
                  /\ jerr[r] = "CapacityError"
                  /\ \E q \in Req : pc[q] = "joined"

\* C4: a join attempted on a full or non-scheduled session ends refused
\* (InvalidStateError when not scheduled, else CapacityError) and leaves
\* currentStudents and status as they were; with maxStudents = 1 and
\* currentStudents = 0 the first join gives currentStudents = 1 and
\* canJoin() = false, and every later join is refused with CapacityError.
C4_FullOrUnscheduledJoinRejected == [][C4_Step]_vars /\ []C4_Scenario

\* C4 witness: the scenario after its second join.
C4_Witness ==
    /\ cur0 = 0 /\ maxStudents = 1 /\ sStatus = "scheduled"
    /\ currentStudents = 1
    /\ \E r, q \in Req :
          pc[r] = "joined" /\ pc[q] = "rejected" /\ jerr[q] = "CapacityError"

AllowedEdges ==
    {<<"pending", "processing">>, <<"processing", "completed">>,
     <<"pending", "failed">>, <<"completed", "refunded">>}
    \cup {<<s, "cancelled">> : s \in {"pending", "processing", "failed"}}

\* C5: markAsCompleted, markAsFailed and refund change a payment's status only
\* along pending->processing, processing->completed, pending->failed,
\* completed->refunded and, before completion, ->cancelled.
C5_OnlyLifecycleEdges ==
    [][pStatus' # pStatus => <<pStatus, pStatus'>> \in AllowedEdges]_vars

\* C6: once a payment is 'refunded', no call changes its status, amount,
\* paidAt, refundAmount, refundReason or refundedAt.
C6_RefundedIsImmutable ==
    [][pStatus = "refunded" =>
          UNCHANGED <<pStatus, amount, paidAt, refundAmount, refundReason,
                      refundedAt>>]_vars

\* C7: a refunded payment has refundAmount <= amount.
C7_RefundWithinAmount ==
    (pStatus = "refunded" /\ refundAmount # None) => Val(refundAmount) <= amount

PastDue(t) == pStatus # "completed" /\ dueDate # None /\ t > Val(dueDate)

\* C8: isOverdue() is true exactly when status is not 'completed', a dueDate
\* is set and the current time is after it, whatever the other fields.
C8_IsOverdueIff ==
    /\ isOverdue(Pay, now) = PastDue(now)
    /\ ret.op = "isOverdue" => (ret.val = 1) = PastDue(ret.t1)

\* C8 witness: isOverdue() answered true for a past-due refunded payment.
C8_Witness ==
    ret.op = "isOverdue" /\ ret.val = 1 /\ pStatus = "refunded"

\* The least number of whole days that cover ms milliseconds.
LeastDays(ms) ==
    CHOOSE n \in 0..(MaxDays + 2) :
        n * MS_PER_DAY >= ms /\ (n - 1) * MS_PER_DAY < ms

\* C9: getDaysOverdue() returns 0 when isOverdue() is false and otherwise the
\* ceiling of (now - dueDate) / 86400000; it is never negative and at least 1
\* when isOverdue() is true.
C9_DaysOverdueIsCeil ==
    ret.op = "getDaysOverdue" =>
        /\ ret.val >= 0
        /\ ~isOverdue(Pay, ret.t1) => ret.val = 0
        /\ ~PastDue(ret.t1) => ret.val = 0
        /\ PastDue(ret.t1) =>
              /\ ret.val = LeastDays(ret.t2 - Val(dueDate))
              /\ ret.val >= 1

\* C9 witness: a started second day counts as two days.
C9_Witness ==
    /\ ret.op = "getDaysOverdue" /\ ret.val = 2
    /\ ret.t2 - Val(dueDate) < 2 * MS_PER_DAY

\* A pending payment whose dueDate is one day before its creation, read by
\* getDaysOverdue() after a positive time of less than a day.
YesterdayCase ==
    /\ ret.op = "getDaysOverdue"
    /\ pStatus = "pending"
    /\ dueDate = Some(createdAt - MS_PER_DAY)
    /\ ret.t1 > createdAt
    /\ ret.t2 - createdAt < MS_PER_DAY

\* C10 as stated: for a pending payment due yesterday, after any positive time
\* of less than a day, isOverdue() is true and getDaysOverdue() returns 1.
C10_YesterdayIsOneDay ==
    YesterdayCase => (isOverdue(Pay, ret.t1) /\ ret.val = 1)

\* C10 as amended: for a pending payment due yesterday, after any positive
\* time of less than a day, isOverdue() is true and getDaysOverdue() returns
\* 2; it returns 1 only when no time has passed since dueDate was computed.
C10_YesterdayIsTwoDays ==
    /\ YesterdayCase => (isOverdue(Pay, ret.t1) /\ ret.val = 2)
    /\ (/\ ret.op = "getDaysOverdue" /\ pStatus = "pending"
        /\ dueDate = Some(createdAt - MS_PER_DAY) /\ ret.t2 = createdAt)
          => ret.val = 1

\* C10 witness: the call one millisecond after creation returned 2.
C10_Witness ==
    YesterdayCase /\ ret.t2 = createdAt + 1 /\ ret.val = 2

\* C11: numbers the hook generates for payments created one at a time within
\* one calendar month are strictly increasing, whatever the day and time of
\* the creations.
C11_SerialNumbersIncrease ==
    \A i, j \in DOMAIN issued :
        (i < j /\ issued[i].mo = issued[j].mo) => issued[i].n < issued[j].n

\* C12: two creations that both counted before either inserted carry the same
\* invoiceNumber; nothing renumbers or retries, and the unique constraint is
\* the only guard: the first insert is stored, the second is refused.
C12_RaceDuplicatesNumber ==
    /\ \A c, d \in Creations :
          ( /\ c # d /\ cpc[c] = "counted" /\ cpc[d] = "counted"
            /\ draft[c].seenRows = Len(store) /\ draft[d].seenRows = Len(store)
            /\ draft[c].createdAt.mo = draft[d].createdAt.mo )
          => draft[c].invoiceNumber = draft[d].invoiceNumber
    /\ \A i, j \in DOMAIN store :
          i # j => store[i].invoiceNumber # store[j].invoiceNumber
    /\ \A c \in Creations :
          /\ cpc[c] = "done" => \E i \in DOMAIN store : store[i] = draft[c]
          /\ cpc[c] = "failed" =>
                /\ \A i \in DOMAIN store : store[i] # draft[c]
                /\ \E i \in DOMAIN store :
                      store[i].invoiceNumber = draft[c].invoiceNumber

\* C12 witness: both creations counted over the same rows, one was stored
\* and the other refused with the same number.
C12_Witness ==
    /\ cpc["a"] = "done" /\ cpc["b"] = "failed"
    /\ draft["a"].seenRows = draft["b"].seenRows
    /\ draft["a"].invoiceNumber = draft["b"].invoiceNumber

\* C14: a payment persisted while ENVIRONMENT is 'dev' is completed, of amount
\* 0, paid by 'dev_mode', of environment 'dev' and has paidAt, whatever was
\* supplied; under any other flag status, amount and paymentMethod are the
\* supplied ones.
C14_DevOverrideAtCreation ==
    \A i \in DOMAIN store :
        LET r == store[i] IN
        /\ envFlag = "dev" =>
              /\ r.status = "completed" /\ r.amount = 0
              /\ r.paymentMethod = "dev_mode" /\ r.environment = "dev"
              /\ r.paidAt # None
        /\ envFlag # "dev" =>
              /\ r.status = r.supplied.status /\ r.amount = r.supplied.amount
              /\ r.paymentMethod = r.supplied.paymentMethod

\* C14 witness: under 'dev' a failed paypal payment of a positive amount was
\* stored.
C14_Witness ==
    /\ envFlag = "dev"
    /\ \E i \in DOMAIN store :
          /\ store[i].supplied.status = "failed"
          /\ store[i].supplied.amount = MaxAmount
          /\ store[i].supplied.paymentMethod = "paypal"

\* The arguments markAsCompleted can be called with.
TxArgs == {None} \cup {Some(x) : x \in TransactionIds}
GwArgs == {None} \cup {Some(g) : g \in GatewayResponses}

\* C13: every markAsCompleted call leaves status 'completed' (also on a
\* payment that already is), sets paidAt to the time of that call, and stores
\* a transactionId / gatewayResponse only when one is passed: a call without
\* them leaves the stored ones as they were.
C13_MarkAsCompletedRepeated ==
    [][\A tx \in TxArgs, gw \in GwArgs :
          markAsCompleted(tx, gw) =>
             /\ pStatus' = "completed"
             /\ paidAt' = Some(now)
             /\ (tx = None => transactionId' = transactionId)
             /\ (tx # None => transactionId' = tx)
             /\ (gw = None => gatewayResponse' = gatewayResponse)
             /\ (gw # None => gatewayResponse' = gw)]_vars

\* C13 witness: a payment completed at creation, with a transactionId from an
\* earlier call, whose paidAt is the later time of the latest call.
C13_Witness ==
    /\ environment = "dev" /\ pStatus = "completed"
    /\ now > createdAt /\ paidAt = Some(now)
    /\ transactionId # None /\ gatewayResponse # None

\* The status the error-translation summary gives for an error name.
SummaryStatus(name) ==
    CASE name = "SequelizeValidationError" -> 400
      [] name = "SequelizeUniqueConstraintError" -> 409
      [] name = "SequelizeForeignKeyConstraintError" -> 400
      [] name \in {"JsonWebTokenError", "TokenExpiredError"} -> 401
      [] OTHER -> 500

\* The status by rule precedence: of the rules an error matches the one
\* latest in the middleware decides, and an error matching none keeps its own
\* statusCode when it carries a non-zero one.
PrecedenceStatus(err) ==
    CASE err.name = "CastError" -> 400
      [] err.status = Some(429) -> 429
      [] err.code \in {"LIMIT_FILE_SIZE", "LIMIT_UNEXPECTED_FILE"} -> 400
      [] err.name \in {"JsonWebTokenError", "TokenExpiredError"} -> 401
      [] err.name = "SequelizeForeignKeyConstraintError" -> 400
      [] err.name = "SequelizeUniqueConstraintError" -> 409
      [] err.name = "SequelizeValidationError" -> 400
      [] OTHER -> IF err.statusCode \in {None, Some(0)} THEN 500
                  ELSE Val(err.statusCode)

\* C18 as stated: the five named errors get 400/409/400/401/401, every other
\* error gets 500, and every response has success:false and a message.
C18_OtherErrorsAre500 ==
    resp # NoResp =>
        /\ resp.statusCode = SummaryStatus(lastErr.name)
        /\ resp.success = FALSE /\ resp.message # ""

\* C18 amended: each error gets exactly one status, decided by rule
\* precedence; among errors matching no rule only those without a statusCode
\* of their own get 500; every response has success:false and a message.
C18_StatusByPrecedence ==
    resp # NoResp =>
        /\ resp.statusCode = PrecedenceStatus(lastErr)
        /\ ( /\ lastErr.code = "none" /\ lastErr.status = None
             /\ lastErr.statusCode = None /\ lastErr.name # "CastError" )
           => resp.statusCode = SummaryStatus(lastErr.name)
        /\ resp.success = FALSE /\ resp.message # ""

\* C18 witness: an upload error, none of the five named ones, answered 400.
C18_Witness ==
    /\ lastErr.name = "Error" /\ lastErr.code = "LIMIT_FILE_SIZE"
    /\ lastErr.status = None /\ lastErr.statusCode = None
    /\ resp.statusCode = 400 /\ resp.message = "File size too large"

\* C15: the attendance table never holds two rows of one (sessionId,
\* studentId), however the creation requests interleave; a creation for a pair
\* already stored is refused, leaves the table as it was, and is answered by
\* the error handler with HTTP 409.
C15_OneAttendancePerPair ==
    /\ [](\A i, j \in DOMAIN attRows :
             i # j => ~(/\ attRows[i].sessionId = attRows[j].sessionId
                        /\ attRows[i].studentId = attRows[j].studentId))
    /\ [](\A r \in AttReqs :
             areq[r].pc = "duplicate" =>
                /\ areq[r].resp.statusCode = 409 /\ areq[r].resp.success = FALSE
                /\ \E i \in DOMAIN attRows :
                      /\ attRows[i].id # r
                      /\ attRows[i].sessionId = areq[r].sessionId
                      /\ attRows[i].studentId = areq[r].studentId)
    /\ [][\A r \in AttReqs :
             (areq[r].pc = "built" /\ areq'[r].pc = "duplicate") => attRows' = attRows]_vars

\* C15 witness: two requests for one pair were in flight together; one was
\* stored, the other refused with 409, and one row is held.
C15_Witness ==
    /\ areq["p"].pc = "created" /\ areq["q"].pc = "duplicate"
    /\ areq["p"].sessionId = areq["q"].sessionId
    /\ areq["p"].studentId = areq["q"].studentId
    /\ areq["q"].resp.statusCode = 409
    /\ Len(attRows) = 1

\* Every mark operation sets its target status and stamps markedBy and
\* markedAt with the caller and the time of the call; no mark operation
\* leads back to 'pending'.
C16_Stamps ==
    /\ \A by \in Markers :
          /\ markPresent(by) => att'.status = "present"
          /\ markLate(by) => att'.status = "late"
          /\ (markPresent(by) \/ markLate(by)) =>
                att'.markedBy = Some(by) /\ att'.markedAt = Some(now)
          /\ \A reason \in AbsenceReasons :
                markAbsent(by, reason) =>
                   /\ att'.status = "absent"
                   /\ att'.markedBy = Some(by) /\ att'.markedAt = Some(now)
    /\ (att.status # "pending" => att'.status # "pending")

\* Once every mark operation has been called on a row created 'pending',
\* each of present, absent, late and excused has been reached.
C16_Reach ==
    (att.created = "pending" /\ called = MarkOps)
        => {"present", "absent", "late", "excused"} \subseteq visited

\* C16: markPresent, markAbsent and markLate set their target status and
\* stamp markedBy and markedAt = now; a row that left 'pending' never returns
\* to it by a mark operation; and present, absent, late and excused are each
\* reached from 'pending' by a mark operation.
C16_MarksReachEveryStatus == [][C16_Stamps]_vars /\ []C16_Reach

\* calculateDuration on both times returns and writes the minutes between
\* them; with a time missing it returns 0 and leaves duration; the mark
\* operations leave duration and checkOutTime alone.
C17_Step ==
    /\ calculateDuration =>
          IF att.checkInTime # None /\ att.checkOutTime # None
          THEN /\ att'.duration = Some(ret'.val)
               /\ \A k \in -(60 * (MaxHours + 1))..(60 * (MaxHours + 1)) :
                     Val(att.checkOutTime) - Val(att.checkInTime) = k * MS_PER_MINUTE
                        => ret'.val = k
          ELSE ret'.val = 0 /\ att'.duration = att.duration
    /\ \A by \in Markers :
          (\/ markPresent(by) \/ markLate(by)
           \/ \E reason \in AbsenceReasons : markAbsent(by, reason))
          => /\ att'.duration = att.duration
             /\ att'.checkOutTime = att.checkOutTime
             /\ ret' = ret

\* The value calculateDuration returned and wrote is not negative.
C17_NonNegative ==
    ret.op = "calculateDuration" =>
        /\ ret.val >= 0
        /\ att.duration # None => Val(att.duration) >= 0

\* C17: calculateDuration returns and writes the minutes between check-in and
\* check-out when both are set (60 for 60 minutes), returns 0 and leaves
\* duration when one is missing, is not invoked by the mark operations, which
\* leave duration and checkOutTime unchanged, and never writes a negative
\* value.
C17_DurationIsMinutesBetween == [][C17_Step]_vars /\ []C17_NonNegative

\* C19: in register, login, forgot-password and reset-password a send that
\* throws after the user row was stored neither undoes the stored change nor
\* fails the request: the row stays as stored, every remaining send is still
\* made, and the handler answers its success response (201 for register, 200
\* for the others).
C19_SendFailureIsSwallowed ==
    /\ saved # None => user = Val(saved)
    /\ (saved # None /\ apc = "responded") =>
          /\ pending = <<>>
          /\ (route = "register" => aresp = 201)
          /\ (route \in {"login", "forgot", "reset"} => aresp = 200)

\* C19 witness: register stored the user and answered 201 although both its
\* sends threw.
C19_Witness ==
    /\ route = "register" /\ apc = "responded" /\ aresp = 201
    /\ user.exists /\ user.phone
    /\ outcomes = << <<"email", "throws">>, <<"whatsapp", "throws">> >>

\* C20: a bulk send attempts each recipient once, in list order; a failed
\* attempt is recorded with success false and neither stops nor repeats the
\* loop; the call never throws and returns one result per recipient, in order.
C20_BulkSendsOncePerRecipient ==
    /\ bpc # "thrown"
    /\ Len(attempts) = bidx - 1 /\ Len(results) = bidx - 1
    /\ bidx - 1 <= Len(recipients)
    /\ \A i \in 1..(bidx - 1) :
          /\ attempts[i] = recipients[i]
          /\ results[i].recipient = recipients[i]
          /\ results[i].success = (oracle[i] # "throws")
    /\ bpc = "returned" => Len(results) = Len(recipients)

\* C20 witness: a list of MaxRecipients whose first send threw was sent to the
\* end, and the call returned.
C20_Witness ==
    /\ bpc = "returned" /\ Len(recipients) = MaxRecipients
    /\ oracle[1] = "throws" /\ ~results[1].success
    /\ oracle[2] = "sent" /\ results[2].success
    /\ recipients[1] = recipients[2]
    /\ Len(results) = MaxRecipients

\* The request's token verifies and names a stored user whose status is 'active'.
Admitted(r) ==
    r.token = "valid" /\ r.user # NoAccount /\ r.user.status = "active"

C21_ProfileLoadsUser ==
    ( /\ kdone.flow = "init" /\ kdone.outcome # "none"
      /\ kdone.req.loaded = Some("valid")
      /\ account # NoAccount /\ account.status = "active"
      /\ ~kdone.req.netfail ) =>
        /\ kdone.req.answers[1] = 200
        /\ kdone.outcome = "resolved"
        /\ authState.user = Some(account)
        /\ authState.token = Some("valid")
        /\ ls.token = Some("valid")

\* C26: per original request the response interceptor performs at most one
\* token refresh and at most one retry, the refresh only with _retry set, so
\* a request answered 401 again on its retry ends rejected after two sends;
\* after a failed refresh call neither token nor refreshToken is in
\* localStorage, the browser is at /login and the request is rejected.
C26_OneRefreshOneRetry ==
    /\ \A r \in {kreq, kdone.req} :
          /\ r.refreshes <= 1 /\ r.retries <= 1 /\ r.retries <= r.refreshes
          /\ Len(r.answers) <= 1 + r.retries
          /\ r.refreshes = 1 => r.retry
    /\ kreq.pc = "sent" => Len(kreq.answers) = kreq.retries
    /\ (Len(kdone.req.answers) = 2 /\ kdone.req.answers[2] = 401) =>
          kdone.outcome = "rejected"
    /\ kdone.refreshFailed =>
          /\ ls.token = None /\ ls.refreshToken = None
          /\ location = "/login"
          /\ kdone.outcome = "rejected"

\* C26 witness: a request was answered 401, refreshed once, retried once,
\* answered 401 again and rejected.
C26_Witness ==
    /\ kdone.req.answers = <<401, 401>>
    /\ kdone.req.refreshes = 1 /\ kdone.req.retries = 1
    /\ kdone.outcome = "rejected" /\ ~kdone.refreshFailed

\* C27: once logout() has completed, whether its POST /auth/logout call
\* succeeded or failed, localStorage holds neither token nor refreshToken,
\* the default Authorization header is removed and the auth state has
\* user = null, token = null, loading = false and error = null.
C27_LogoutClearsEverything ==
    kdone.flow = "logout" =>
        /\ ls = [token |-> None, refreshToken |-> None]
        /\ header = None
        /\ authState = [user |-> None, token |-> None, loading |-> FALSE,
                        error |-> None]

\* C27 witness: a logged-in client whose logout call failed has completed
\* logout().
C27_Witness ==
    /\ kdone.flow = "logout" /\ kdone.outcome = "rejected"
    /\ kdone.req.loaded = Some("valid") /\ kdone.req.answers = <<0>>


C24_ResetTokenSingleUse ==
    rlast.status # 0 =>
        /\ rlast.reused => (rlast.status = 400 /\ rlast.after = rlast.before)
        /\ rlast.superseded => (rlast.status = 400 /\ rlast.after = rlast.before)
        /\ rlast.status = 200 =>
              /\ rlast.stored = Some(rlast.token)
              /\ Val(rlast.expires) >= rlast.at


\* C25: every registration request for an email a stored user holds, also
\* one that finds the email free and meets the other request's user at
\* User.create, is answered 409 and creates no user; at most one user per
\* email ever exists.
C25_DuplicateEmailIs409 ==
    /\ \A r \in RegReqs :
          (regreq[r].pc = "done" /\ regreq[r].held) =>
              (regreq[r].status = 409 /\ ~regreq[r].created)
    /\ \A i, j \in 1..Len(users) : users[i].email = users[j].email => i = j


\* C28: a system colour-scheme change that arrives after the provider has
\* mounted sets darkMode to the system value when the user has never called
\* toggleTheme or setTheme since first load, and leaves darkMode unchanged
\* when the user has.
C28_SystemChangeFollowedUnlessManual ==
    tlast.heard =>
        /\ ~tlast.manual => tlast.after = tlast.matches
        /\ tlast.manual => tlast.after = tlast.before


\* C29: at any instant Payment.findOverdue() returns exactly the stored
\* payments for which isOverdue() is true at that instant.
C29_FindOverdueIsIsOverdue ==
    ret.op = "findOverdue" =>
        /\ (ret.val = 1) <=> isOverdue(Pay, ret.t1)
        /\ findOverdue({Pay}, ret.t1) = {p \in {Pay} : isOverdue(p, ret.t1)}


\* What each mark operation does to reason.
C30_Reason ==
    \A by \in Markers :
        /\ markPresent(by) => att'.reason = att.reason
        /\ markLate(by) => att'.reason = att.reason
        /\ \A reason \in AbsenceReasons : markAbsent(by, reason) => att'.reason = reason

\* An 'absent' record has no checkInTime; a 'present' or 'late' record has
\* the time of the call that set its status as checkInTime.
C30_CheckIn ==
    /\ att.status = "absent" => att.checkInTime = None
    /\ att.status \in {"present", "late"} =>
          (att.checkInTime # None /\ att.checkInTime = att.markedAt)

\* C30: after any sequence of markPresent, markLate and markAbsent calls a
\* record whose status is 'absent' has no checkInTime and one whose status is
\* 'present' or 'late' has the time of the call that set that status as
\* checkInTime; markAbsent sets reason to the supplied value (null when
\* omitted), markPresent and markLate leave reason unchanged.
C30_AbsentHasNoCheckIn == [][C30_Reason]_vars /\ []C30_CheckIn


====
